---- MODULE Spec2Model ----
(***************************************************************************)
(* Smart Parking: the ESP32-CAM entrance firmware (SmartParking_Entrance), *)
(* the slot-camera firmware (SmartParking_SlotCamera) and the dashboard's  *)
(* slot utilities, modelled against the shared Firebase Realtime Database. *)
(*                                                                         *)
(* Confidences are carried in hundredths (0.55 is 55); the classifier's    *)
(* values are taken to be exactly representable, so the float comparisons  *)
(* of the firmware are integer comparisons here.  Times are readings of    *)
(* the device's millis() counter in ticks of 4 ms (Ms converts), so that   *)
(* the 32-bit counter wraps at 2^30 ticks.                                 *)
(***************************************************************************)
EXTENDS Integers, Sequences, FiniteSets, TLC

VARIABLES
    db,         \* the shared store: spots (parking_spots/slot_<n>), checkin
                \* (checkin_count/<type>), alerts (alerts/full_capacity),
                \* logs (logs/access), cameras (cameras/<id>)
    now,        \* millis() of the running device
    ent,        \* the entrance firmware's globals and, in Spec, its place in the code
    trk,        \* the slot-camera firmware's globals and, in Spec, its place in the code
    json,       \* the classifier response handed to the interpreter
    parsed,     \* what parseRoboflowResponse left in its out-parameters
    call,       \* the arguments of the handler a specification applies
    issued,     \* the store writes the last handler issued, in program order
    srv         \* the stream-server firmware's globals

vars == <<db, now, ent, trk, json, parsed, call, issued, srv>>

(***************************************************************************)
(* Bounds of the model.                                                    *)
(***************************************************************************)
MaxPreds == 3           \* predictions in one classifier response
ScanSlots == 6          \* provisioned slots of the ledgers findAvailableSlot is tried on
CheckInSlots == 3       \* provisioned slots of the ledgers a check-in is tried on
MaxVacates == 2         \* consecutive runs of the vacate path
NumSlots == 2           \* provisioned slots of the running system
MaxCheckIns == 2        \* check-ins started in one run of the system
MaxLoops == 4           \* loop() iterations in one run of a device loop
MaxSpots == 2           \* slot records in a spots map of the dashboard
MaxFrames == 3          \* frames one client is served by stream_handler

(***************************************************************************)
(* Program constants.                                                      *)
(***************************************************************************)
CONFIDENCE_THRESHOLD == 55      \* entrance: #define CONFIDENCE_THRESHOLD 0.55
PLATE_FLOOR == 50               \* entrance: conf > 0.5 for license_plate
SLOT_CONFIDENCE_THRESHOLD == 50 \* slot camera: #define CONFIDENCE_THRESHOLD 0.50

VehicleTypes == {"car", "motorcycle", "truck"}
Labels == VehicleTypes \cup {"license_plate", "person"}
Confs == {0, 50, 54, 55, 60}
Prediction == [class : Labels, confidence : Confs]

SeqsUpTo(S, n) == UNION {[1..k -> S] : k \in 0..n}

\* A classifier response: the empty string (transport failure / non-200), a body
\* that deserializeJson rejects, or a document with a predictions array.
Responses ==
    {[kind |-> "empty", predictions |-> <<>>],
     [kind |-> "malformed", predictions |-> <<>>]}
    \cup {[kind |-> "ok", predictions |-> p] : p \in SeqsUpTo(Prediction, MaxPreds)}

IsVehicle(cls) == cls = "car" \/ cls = "motorcycle" \/ cls = "truck"

\* The out-parameters as the entrance loop initialises them before the call.
ParseInit == [vehicleType |-> "", licensePlate |-> "", confidence |-> 0]

\* An iteration that lets any prediction, vehicle or not, raise the confidence.
ParseStep_AnyClassRaises(acc, pred) ==
    LET cls == pred.class
        conf == pred.confidence
        a1 == IF conf > acc.confidence
              THEN [acc EXCEPT !.vehicleType = IF IsVehicle(cls) THEN cls ELSE @,
                               !.confidence = conf]
              ELSE acc
    IN  IF cls = "license_plate" /\ conf > PLATE_FLOOR
        THEN [a1 EXCEPT !.licensePlate = "PLATE_DETECTED"]
        ELSE a1

\* An iteration whose plate test is inclusive.
ParseStep_PlateAtFloor(acc, pred) ==
    LET cls == pred.class
        conf == pred.confidence
        a1 == IF IsVehicle(cls) /\ conf > acc.confidence
              THEN [acc EXCEPT !.vehicleType = cls, !.confidence = conf]
              ELSE acc
    IN  IF cls = "license_plate" /\ conf >= PLATE_FLOOR
        THEN [a1 EXCEPT !.licensePlate = "PLATE_DETECTED"]
        ELSE a1

\* One iteration of the for-loop over predictions.
ParseStep(acc, pred) ==
    LET cls == pred.class
        conf == pred.confidence
        a1 == IF IsVehicle(cls) /\ conf > acc.confidence
              THEN [acc EXCEPT !.vehicleType = cls, !.confidence = conf]
              ELSE acc
    IN  IF cls = "license_plate" /\ conf > PLATE_FLOOR
        THEN [a1 EXCEPT !.licensePlate = "PLATE_DETECTED"]
        ELSE a1

RECURSIVE ParseLoop(_, _, _)
ParseLoop(preds, i, acc) ==
    IF i > Len(preds) THEN acc
    ELSE ParseLoop(preds, i + 1, ParseStep(acc, preds[i]))

\* An interpreter that reports a car when the body cannot be deserialized.
ParseRoboflowResponse_FailsOpen(j, acc) ==
    IF j.kind # "ok"
    THEN [vehicleType |-> "car", licensePlate |-> "", confidence |-> 100]
    ELSE ParseLoop(j.predictions, 1, acc)

\* parseRoboflowResponse(json, vehicleType, licensePlate, confidence): on a
\* deserialization error the out-parameters are left as passed in.
ParseRoboflowResponse(j, acc) ==
    IF j.kind # "ok" THEN acc
    ELSE ParseLoop(j.predictions, 1, acc)

\* A gate that lets every non-empty vehicle type through.
VehicleAccepted_AnyConfidence(p) ==
    p.vehicleType # ""

\* The test of the entrance loop that guards processVehicleCheckIn.
VehicleAccepted(p) ==
    p.vehicleType # "" /\ p.confidence >= CONFIDENCE_THRESHOLD

(***************************************************************************)
(* The shared store.  The firmware addresses slot_0 .. slot_10; a slot     *)
(* that was never provisioned has no fields and every read of it fails.    *)
(* Every Firebase.set*, push* and get* call is one request to the store.   *)
(***************************************************************************)
SCAN_LAST == 10                 \* for (int i = 0; i <= 10; i++)
SlotIds == 0..SCAN_LAST
Absent == -1                    \* an integer path that holds no value

ENTRANCE_CAMERA_ID == "entrance"    \* entrance: #define CAMERA_ID
SLOT_CAMERA_ID == "slot_cam_0"      \* slot camera: #define CAMERA_ID
SLOT_ID == 0                        \* slot camera: #define SLOT_ID
CameraIds == {ENTRANCE_CAMERA_ID, SLOT_CAMERA_ID}

AbsentSlot ==
    [type |-> "<absent>", occupied |-> FALSE, vehicle_type |-> "",
     license_plate |-> "", entry_time |-> 0]

VacantSlot(t) ==
    [type |-> t, occupied |-> FALSE, vehicle_type |-> "",
     license_plate |-> "", entry_time |-> 0]

\* cameras/<id> as initFirebase leaves it: status set, no heartbeat yet.
BootedCamera == [status |-> "online", last_heartbeat |-> Absent]

EmptyStore ==
    [spots |-> [i \in SlotIds |-> AbsentSlot],
     checkin |-> [t \in VehicleTypes |-> Absent],
     alerts |-> <<>>,
     logs |-> <<>>,
     cameras |-> [c \in CameraIds |-> BootedCamera]]

\* A store whose ledger is sp and whose counters all hold n (or no value).
StoreOf(sp, n) ==
    [EmptyStore EXCEPT !.spots = sp, !.checkin = [t \in VehicleTypes |-> n]]

\* One write request.
SetSlot(k, field, v) ==
    [op |-> "set", ns |-> "parking_spots", key |-> k, field |-> field, val |-> v]
SetCount(t, n) ==
    [op |-> "set", ns |-> "checkin_count", key |-> t, field |-> "", val |-> n]
SetCamera(id, field, v) ==
    [op |-> "set", ns |-> "cameras", key |-> id, field |-> field, val |-> v]
PushAlert(v) ==
    [op |-> "push", ns |-> "alerts", key |-> "full_capacity", field |-> "", val |-> v]
PushLog(v) ==
    [op |-> "push", ns |-> "logs", key |-> "access", field |-> "", val |-> v]

\* The store after one write: last write wins, a push appends.
Apply(d, w) ==
    CASE w.ns = "parking_spots" -> [d EXCEPT !.spots[w.key][w.field] = w.val]
      [] w.ns = "checkin_count" -> [d EXCEPT !.checkin[w.key] = w.val]
      [] w.ns = "cameras" -> [d EXCEPT !.cameras[w.key][w.field] = w.val]
      [] w.ns = "alerts" -> [d EXCEPT !.alerts = Append(@, w.val)]
      [] w.ns = "logs" -> [d EXCEPT !.logs = Append(@, w.val)]

RECURSIVE ApplyAll(_, _)
ApplyAll(d, ws) ==
    IF ws = <<>> THEN d ELSE ApplyAll(Apply(d, Head(ws)), Tail(ws))

\* Firebase.getString(fbData, path + "/type"): fails when the path has no value.
GetType(d, i) ==
    [ok |-> d.spots[i].type # "<absent>", data |-> d.spots[i].type]

\* Firebase.getBool(fbData, path + "/occupied").
GetOccupied(d, i) ==
    [ok |-> d.spots[i].type # "<absent>", data |-> d.spots[i].occupied]

\* Firebase.getInt(fbData, "checkin_count/" + vehicleType).
GetCount(d, t) ==
    [ok |-> d.checkin[t] # Absent, data |-> d.checkin[t]]

(***************************************************************************)
(* Time.  millis() is an unsigned 32-bit millisecond counter.  The model   *)
(* counts in ticks of 4 ms, so that the counter wraps at 2^30 ticks and    *)
(* every interval of the firmware (100, 200, 500, 5000, 15000, 30000 ms)   *)
(* is a whole number of ticks.                                             *)
(***************************************************************************)
MILLIS_WRAP == 1073741824               \* 2^32 ms, in ticks
Ms(n) == n \div 4                       \* n milliseconds, in ticks

\* now - last as a signed difference that does not wrap.
Elapsed_Signed(t, last) == t - last

\* now - last on unsigned long.
Elapsed(t, last) == (t - last + MILLIS_WRAP) % MILLIS_WRAP

\* millis() after d more ticks.
Later(t, d) == (t + d) % MILLIS_WRAP

\* (int)(millis() / 1000)
Seconds(t) == t \div Ms(1000)

(***************************************************************************)
(* Entrance firmware: the allocator.  Each handler is given as the list of *)
(* write requests it issues, in program order, from what its reads return. *)
(***************************************************************************)
\* The body of the scan loop for index i: TRUE when it returns i.
SlotAvailable(d, i, vehicleType) ==
    LET t == GetType(d, i)
        o == GetOccupied(d, i)
    IN  /\ t.ok
        /\ t.data = vehicleType
        /\ o.ok
        /\ ~o.data

RECURSIVE ScanFrom(_, _, _)
ScanFrom(d, i, vehicleType) ==
    IF i > SCAN_LAST THEN -1
    ELSE IF SlotAvailable(d, i, vehicleType) THEN i
    ELSE ScanFrom(d, i + 1, vehicleType)

\* A scan that keeps the last match instead of returning the first.
RECURSIVE ScanLastFrom(_, _, _, _)
ScanLastFrom(d, i, vehicleType, found) ==
    IF i > SCAN_LAST THEN found
    ELSE ScanLastFrom(d, i + 1, vehicleType,
                      IF SlotAvailable(d, i, vehicleType) THEN i ELSE found)

FindAvailableSlot_LastFit(d, vehicleType) == ScanLastFrom(d, 0, vehicleType, -1)

\* int findAvailableSlot(String vehicleType), on a ledger no one else writes
\* during the scan.
FindAvailableSlot(d, vehicleType) == ScanFrom(d, 0, vehicleType)

\* A claim that writes the metadata but leaves the slot marked free.
AssignSlot_LeavesVacant(slotId, vehicleType, licensePlate, t) ==
    << SetSlot(slotId, "occupied", FALSE),
       SetSlot(slotId, "vehicle_type", vehicleType),
       SetSlot(slotId, "license_plate", licensePlate),
       SetSlot(slotId, "entry_time", Seconds(t)) >>

\* A claim that also rewrites the slot's type.
AssignSlot_WritesType(slotId, vehicleType, licensePlate, t) ==
    << SetSlot(slotId, "occupied", TRUE),
       SetSlot(slotId, "type", vehicleType),
       SetSlot(slotId, "vehicle_type", vehicleType),
       SetSlot(slotId, "license_plate", licensePlate),
       SetSlot(slotId, "entry_time", Seconds(t)) >>

\* void assignSlot(int slotId, String vehicleType, String licensePlate)
AssignSlot(slotId, vehicleType, licensePlate, t) ==
    << SetSlot(slotId, "occupied", TRUE),
       SetSlot(slotId, "vehicle_type", vehicleType),
       SetSlot(slotId, "license_plate", licensePlate),
       SetSlot(slotId, "entry_time", Seconds(t)) >>

\* void incrementCheckinCount(String vehicleType): the write follows a read.
IncrementCheckinCount(d, vehicleType) ==
    LET r == GetCount(d, vehicleType)
    IN  IF r.ok THEN << SetCount(vehicleType, r.data + 1) >> ELSE << >>

\* void logAccess(String action, String vehicleType, String plate, int slotId)
LogAccess(action, vehicleType, plate, slotId, t) ==
    << PushLog([action |-> action, type |-> vehicleType, plate |-> plate,
                slot |-> slotId, timestamp |-> Seconds(t)]) >>

\* The alert string: vehicleType + " parking full - " + String(millis()).
FullCapacityAlert(vehicleType, t) ==
    << PushAlert([vehicleType |-> vehicleType, millis |-> t]) >>

\* A check-in that claims the slot and logs it even when no slot was found.
ProcessVehicleCheckIn_NoCapacityTest(d, vehicleType, licensePlate, t) ==
    LET slotId == FindAvailableSlot(d, vehicleType)
    IN  AssignSlot(IF slotId >= 0 THEN slotId ELSE 0, vehicleType, licensePlate, t)
        \o FullCapacityAlert(vehicleType, t)

\* A check-in that appends the access log first and claims the slot last.
ProcessVehicleCheckIn_LogFirst(d, vehicleType, licensePlate, t) ==
    LET slotId == FindAvailableSlot(d, vehicleType)
    IN  IF slotId >= 0
        THEN LogAccess("CHECK_IN", vehicleType, licensePlate, slotId, t)
             \o IncrementCheckinCount(d, vehicleType)
             \o AssignSlot(slotId, vehicleType, licensePlate, t)
        ELSE FullCapacityAlert(vehicleType, t)

\* void processVehicleCheckIn(String vehicleType, String licensePlate), run
\* against a store no one else writes meanwhile, at millis() = t.
ProcessVehicleCheckIn(d, vehicleType, licensePlate, t) ==
    LET slotId == FindAvailableSlot(d, vehicleType)
    IN  IF slotId >= 0
        THEN AssignSlot(slotId, vehicleType, licensePlate, t)
             \o IncrementCheckinCount(d, vehicleType)
             \o LogAccess("CHECK_IN", vehicleType, licensePlate, slotId, t)
        ELSE FullCapacityAlert(vehicleType, t)

\* A heartbeat that every device writes into the entrance's record.
SendHeartbeat_IntoEntranceRecord(id, t) ==
    << SetCamera(ENTRANCE_CAMERA_ID, "status", "online"),
       SetCamera(ENTRANCE_CAMERA_ID, "last_heartbeat", Seconds(t)) >>

\* void sendHeartbeat() of the device whose CAMERA_ID is id.
SendHeartbeat(id, t) ==
    << SetCamera(id, "status", "online"),
       SetCamera(id, "last_heartbeat", Seconds(t)) >>

(***************************************************************************)
(* Slot-camera firmware: the occupancy tracker of slot SLOT_ID.            *)
(***************************************************************************)
\* bool detectVehiclePresence(String json)
RECURSIVE PresenceFrom(_, _)
PresenceFrom(preds, i) ==
    IF i > Len(preds) THEN FALSE
    ELSE IF IsVehicle(preds[i].class)
            /\ preds[i].confidence >= SLOT_CONFIDENCE_THRESHOLD THEN TRUE
    ELSE PresenceFrom(preds, i + 1)

\* A detector that reports a vehicle when the body cannot be deserialized.
DetectVehiclePresence_MalformedMeansPresent(j) ==
    IF j.kind = "malformed" THEN TRUE
    ELSE IF j.kind # "ok" THEN FALSE ELSE PresenceFrom(j.predictions, 1)

\* A detector whose floor is exclusive.
DetectVehiclePresence_StrictFloor(j) ==
    IF j.kind # "ok" THEN FALSE
    ELSE \E i \in 1..Len(j.predictions) :
            /\ IsVehicle(j.predictions[i].class)
            /\ j.predictions[i].confidence > SLOT_CONFIDENCE_THRESHOLD

DetectVehiclePresence(j) ==
    IF j.kind # "ok" THEN FALSE ELSE PresenceFrom(j.predictions, 1)

\* A vacate that stamps the time of the call into entry_time.
UpdateSlotOccupancy_StampsVacate(k, occupied, t) ==
    IF occupied
    THEN << SetSlot(k, "occupied", TRUE), SetSlot(k, "entry_time", Seconds(t)) >>
    ELSE << SetSlot(k, "occupied", FALSE),
            SetSlot(k, "vehicle_type", ""),
            SetSlot(k, "license_plate", ""),
            SetSlot(k, "entry_time", Seconds(t)) >>

\* An update whose arrival branch also clears the vehicle's metadata.
UpdateSlotOccupancy_ArrivalClears(k, occupied, t) ==
    IF occupied
    THEN << SetSlot(k, "occupied", TRUE),
            SetSlot(k, "vehicle_type", ""),
            SetSlot(k, "license_plate", ""),
            SetSlot(k, "entry_time", Seconds(t)) >>
    ELSE << SetSlot(k, "occupied", FALSE),
            SetSlot(k, "vehicle_type", ""),
            SetSlot(k, "license_plate", ""),
            SetSlot(k, "entry_time", 0) >>

\* An update that vacates the neighbouring slot as well.
UpdateSlotOccupancy_ClearsNeighbour(k, occupied, t) ==
    IF occupied
    THEN << SetSlot(k, "occupied", TRUE),
            SetSlot(k, "entry_time", Seconds(t)) >>
    ELSE << SetSlot(k, "occupied", FALSE),
            SetSlot(k, "vehicle_type", ""),
            SetSlot(k, "license_plate", ""),
            SetSlot(k, "entry_time", 0),
            SetSlot(k + 1, "occupied", FALSE) >>

\* void updateSlotOccupancy(bool occupied)
UpdateSlotOccupancy(k, occupied, t) ==
    IF occupied
    THEN << SetSlot(k, "occupied", TRUE),
            SetSlot(k, "entry_time", Seconds(t)) >>
    ELSE << SetSlot(k, "occupied", FALSE),
            SetSlot(k, "vehicle_type", ""),
            SetSlot(k, "license_plate", ""),
            SetSlot(k, "entry_time", 0) >>

\* clearSlot(slotId) of the dashboard: one update() of four fields.  The
\* update is a single request; it is listed field by field.
ClearSlot(k) ==
    << SetSlot(k, "occupied", FALSE),
       SetSlot(k, "vehicle_type", ""),
       SetSlot(k, "license_plate", ""),
       SetSlot(k, "entry_time", 0) >>

(***************************************************************************)
(* Values of the variables a specification does not use.                   *)
(***************************************************************************)
NoResponse == [kind |-> "empty", predictions |-> <<>>]
NoParse == [vehicleType |-> "?", licensePlate |-> "?", confidence |-> -1]
NoCall == [fn |-> "none"]
NoEnt == [lastDetectionTime |-> 0, lastHeartbeatTime |-> 0]
NoTrk == [previousOccupied |-> FALSE, lastCheckTime |-> 0, lastHeartbeat |-> 0]
NoSrv == [lastHB |-> 0]

(***************************************************************************)
(* SpecParse: the interpreter on its own.  Every response of the bounded   *)
(* family is drawn at Init and parsed once, with the out-parameters as the *)
(* entrance loop initialises them.                                         *)
(***************************************************************************)
InitParse ==
    /\ db = EmptyStore
    /\ now = 0
    /\ ent = NoEnt
    /\ trk = NoTrk
    /\ json \in Responses \ {NoResponse}
    /\ parsed = NoParse
    /\ call = NoCall
    /\ issued = <<>>
    /\ srv = NoSrv

Parse ==
    /\ parsed = NoParse
    /\ parsed' = ParseRoboflowResponse(json, ParseInit)
    /\ UNCHANGED <<db, now, ent, trk, json, call, issued, srv>>

NextParse == Parse

SpecParse == InitParse /\ [][NextParse]_vars

Candidates(j) ==
    {i \in 1..Len(j.predictions) : IsVehicle(j.predictions[i].class)}

AllCandidatesBelowFloor(j) ==
    \A i \in Candidates(j) : j.predictions[i].confidence < CONFIDENCE_THRESHOLD

\* C6 as stated: when every vehicle candidate is strictly below the threshold
\* (0.55), parseRoboflowResponse returns an empty vehicle type.
C6_ParseReturnsAbsentBelowFloor ==
    (parsed # NoParse /\ AllCandidatesBelowFloor(json)) => parsed.vehicleType = ""

\* C6 as amended: when every vehicle candidate is strictly below the threshold,
\* what parseRoboflowResponse returns fails the entrance loop's test
\* (!vehicleType.isEmpty() && bestConfidence >= CONFIDENCE_THRESHOLD), so no
\* vehicle is accepted; the returned type itself may be non-empty.
C6_ConfidenceFloor ==
    (parsed # NoParse /\ AllCandidatesBelowFloor(json)) => ~VehicleAccepted(parsed)

\* A response with a vehicle candidate, all candidates below the threshold, for
\* which the interpreter returned a type that the loop's test then rejects.
C6_Witness ==
    /\ parsed # NoParse
    /\ Candidates(json) # {}
    /\ AllCandidatesBelowFloor(json)
    /\ parsed.vehicleType # ""
    /\ ~VehicleAccepted(parsed)

IsFirstBest(j, i) ==
    /\ i \in Candidates(j)
    /\ \A k \in Candidates(j) :
          /\ j.predictions[k].confidence <= j.predictions[i].confidence
          /\ (j.predictions[k].confidence = j.predictions[i].confidence => i <= k)

\* C7: with at least one vehicle candidate, parseRoboflowResponse returns the
\* label and confidence of the maximum-confidence candidate, the first in input
\* order among equals; with none, the type is empty and the confidence 0.
C7_BestCandidate ==
    (parsed # NoParse /\ json.kind = "ok") =>
        IF Candidates(json) = {}
        THEN parsed.vehicleType = "" /\ parsed.confidence = 0
        ELSE \E i \in Candidates(json) :
                /\ IsFirstBest(json, i)
                /\ parsed.vehicleType = json.predictions[i].class
                /\ parsed.confidence = json.predictions[i].confidence

\* The same selection for responses whose best candidate has a confidence
\* above 0: the part of C7 the code satisfies.
C7_BestPositiveCandidate ==
    (parsed # NoParse /\ json.kind = "ok") =>
        \A i \in Candidates(json) :
            (IsFirstBest(json, i) /\ json.predictions[i].confidence > 0) =>
                /\ parsed.vehicleType = json.predictions[i].class
                /\ parsed.confidence = json.predictions[i].confidence

\* Some prediction has label license_plate and confidence above 0.5.
PlateHit(j) ==
    \E i \in 1..Len(j.predictions) :
        /\ j.predictions[i].class = "license_plate"
        /\ j.predictions[i].confidence > 50

\* The response without its license_plate predictions.
WithoutPlates(j) ==
    [j EXCEPT !.predictions =
        SelectSeq(j.predictions, LAMBDA q : q.class # "license_plate")]

\* The response followed by one more plate hit.
WithPlateHit(j) ==
    [j EXCEPT !.predictions =
        Append(j.predictions, [class |-> "license_plate", confidence |-> 60])]

\* C27: for every prediction list the interpreter returns the plate value
\* "PLATE_DETECTED" if and only if some prediction has label license_plate and
\* confidence strictly above 0.5, and "" otherwise; the vehicle type and
\* confidence it returns are those it returns for the list without the plate
\* predictions; one more plate hit after a hit changes nothing.
C27_PlateFlag ==
    (parsed # NoParse /\ json.kind = "ok")
    => /\ parsed.licensePlate = (IF PlateHit(json) THEN "PLATE_DETECTED" ELSE "")
       /\ LET v == ParseRoboflowResponse(WithoutPlates(json), ParseInit)
          IN  /\ parsed.vehicleType = v.vehicleType
              /\ parsed.confidence = v.confidence
       /\ PlateHit(json)
             => ParseRoboflowResponse(WithPlateHit(json), ParseInit) = parsed

\* Two plate hits around the best vehicle candidate.
C27_Witness ==
    /\ parsed = [vehicleType |-> "car", licensePlate |-> "PLATE_DETECTED",
                 confidence |-> 55]
    /\ json.kind = "ok"
    /\ json.predictions = << [class |-> "license_plate", confidence |-> 60],
                             [class |-> "car", confidence |-> 55],
                             [class |-> "license_plate", confidence |-> 54] >>

(***************************************************************************)
(* SpecScan: findAvailableSlot on its own.  A ledger of ScanSlots          *)
(* provisioned slots is drawn at Init and scanned for a vehicle type.      *)
(***************************************************************************)
OccupiedSlot(t) ==
    [type |-> t, occupied |-> TRUE, vehicle_type |-> t,
     license_plate |-> "", entry_time |-> 1]

Ledgers(n) ==
    {[i \in SlotIds |->
        IF i >= n THEN AbsentSlot
        ELSE IF occ[i] THEN OccupiedSlot(ty[i]) ELSE VacantSlot(ty[i])] :
     ty \in [0..(n - 1) -> VehicleTypes], occ \in [0..(n - 1) -> BOOLEAN]}

InitScan ==
    /\ db \in {StoreOf(sp, 0) : sp \in Ledgers(ScanSlots)}
    /\ now = 0
    /\ ent = NoEnt
    /\ trk = NoTrk
    /\ json = NoResponse
    /\ parsed = NoParse
    /\ call = NoCall
    /\ issued = <<>>
    /\ srv = NoSrv

Scan(vehicleType) ==
    /\ call = NoCall
    /\ call' = [fn |-> "findAvailableSlot", vehicleType |-> vehicleType,
                result |-> FindAvailableSlot(db, vehicleType)]
    /\ UNCHANGED <<db, now, ent, trk, json, parsed, issued, srv>>

NextScan == \E vt \in VehicleTypes : Scan(vt)

SpecScan == InitScan /\ [][NextScan]_vars

MatchingFree(d, vehicleType) ==
    {i \in SlotIds : d.spots[i].type = vehicleType /\ ~d.spots[i].occupied}

\* C1: findAvailableSlot returns the smallest slot id in 0..10 whose type equals
\* the vehicle type and whose occupied field reads false, and -1 when there is none.
C1_FirstFit ==
    call.fn = "findAvailableSlot" =>
        LET m == MatchingFree(db, call.vehicleType)
        IN  IF m = {} THEN call.result = -1
            ELSE /\ call.result \in m
                 /\ \A j \in m : call.result <= j

\* The scenario of the claim: matching slots 2 and 5 free, a lower matching slot
\* occupied, and the scan answered 2.
C1_Witness ==
    /\ call.fn = "findAvailableSlot"
    /\ MatchingFree(db, call.vehicleType) = {2, 5}
    /\ \E j \in 0..1 : /\ db.spots[j].type = call.vehicleType
                        /\ db.spots[j].occupied
    /\ call.result = 2

(***************************************************************************)
(* SpecCheckIn: processVehicleCheckIn on its own, by one entrance device   *)
(* with no other writer.  The store and the arguments are drawn at Init.   *)
(***************************************************************************)
Plates == {"", "PLATE_DETECTED"}

InitCheckIn ==
    /\ db \in {StoreOf(sp, n) : sp \in Ledgers(CheckInSlots), n \in {Absent, 0}}
    /\ now \in {Ms(6000), Ms(61000)}
    /\ ent = NoEnt
    /\ trk = NoTrk
    /\ json = NoResponse
    /\ parsed = NoParse
    /\ call \in [fn : {"processVehicleCheckIn"}, vehicleType : VehicleTypes,
                  licensePlate : Plates, done : {FALSE}]
    /\ issued = <<>>
    /\ srv = NoSrv

CheckIn ==
    /\ call.fn = "processVehicleCheckIn"
    /\ ~call.done
    /\ issued' = ProcessVehicleCheckIn(db, call.vehicleType, call.licensePlate, now)
    /\ db' = ApplyAll(db, issued')
    /\ call' = [call EXCEPT !.done = TRUE]
    /\ UNCHANGED <<now, ent, trk, json, parsed, srv>>

NextCheckIn == CheckIn

SpecCheckIn == InitCheckIn /\ [][NextCheckIn]_vars

AllMatchingOccupied(d, vehicleType) ==
    \A i \in SlotIds : d.spots[i].type = vehicleType => d.spots[i].occupied

IsAlertPush(w) == w.op = "push" /\ w.ns = "alerts" /\ w.key = "full_capacity"

\* C2: when every slot of the scanned range whose type matches is occupied,
\* processVehicleCheckIn appends exactly one entry to alerts/full_capacity and
\* writes no parking_spots record, no check-in counter and no access log.
C2_CapacityExhausted ==
    [][(/\ call.fn = "processVehicleCheckIn"
        /\ ~call.done
        /\ call'.done
        /\ AllMatchingOccupied(db, call.vehicleType))
       => /\ Len(issued') = 1
          /\ IsAlertPush(issued'[1])
          /\ Len(db'.alerts) = Len(db.alerts) + 1
          /\ db'.spots = db.spots
          /\ db'.checkin = db.checkin
          /\ db'.logs = db.logs]_vars

\* A check-in that found a slot of the type, all of them occupied, and left one alert.
C2_Witness ==
    /\ call.fn = "processVehicleCheckIn"
    /\ call.done
    /\ \E i \in SlotIds : db.spots[i].type = call.vehicleType
    /\ Len(issued) = 1
    /\ IsAlertPush(issued[1])
    /\ Len(db.alerts) = 1
    /\ db.alerts[1].vehicleType = call.vehicleType

\* The value a counter stands for: a missing counter counts nothing.
Counted(n) == IF n = Absent THEN 0 ELSE n

\* What a successful check-in of the call must leave in the store.
CheckInEffects ==
    LET vt == call.vehicleType
        s == FindAvailableSlot(db, vt)
    IN  /\ Counted(db'.checkin[vt]) = Counted(db.checkin[vt]) + 1
        /\ \A t \in VehicleTypes \ {vt} : db'.checkin[t] = db.checkin[t]
        /\ Len(db'.logs) = Len(db.logs) + 1
        /\ db'.logs[Len(db'.logs)] =
              [action |-> "CHECK_IN", type |-> vt, plate |-> call.licensePlate,
               slot |-> s, timestamp |-> Seconds(now)]
        /\ db'.spots[s] =
              [type |-> db.spots[s].type, occupied |-> TRUE, vehicle_type |-> vt,
               license_plate |-> call.licensePlate, entry_time |-> Seconds(now)]
        /\ \A i \in SlotIds \ {s} : db'.spots[i] = db.spots[i]
        /\ db'.alerts = db.alerts

\* C14: a successful allocation by a single entrance device increases
\* checkin_count/<vehicleType> by exactly one, appends exactly one access-log
\* entry (CHECK_IN, type, plate, claimed slot) and leaves the claimed slot with
\* occupied=true, vehicle_type, license_plate and entry_time=now.
C14_CheckInSideEffects ==
    [][(/\ call.fn = "processVehicleCheckIn"
        /\ ~call.done
        /\ call'.done
        /\ FindAvailableSlot(db, call.vehicleType) >= 0)
       => CheckInEffects]_vars

\* The same for a store in which checkin_count/<vehicleType> exists.
C14_SideEffectsWithCounter ==
    [][(/\ call.fn = "processVehicleCheckIn"
        /\ ~call.done
        /\ call'.done
        /\ FindAvailableSlot(db, call.vehicleType) >= 0
        /\ db.checkin[call.vehicleType] # Absent)
       => CheckInEffects]_vars

(***************************************************************************)
(* The running system.  Devices share the store and nothing else.  A step  *)
(* is one request to the store: the devices' requests interleave freely,   *)
(* and a read request may fail.  The part of each loop before its first    *)
(* ledger request (timers, capture, classification) is the input of Detect *)
(* and Tick.  Writes are taken to be delivered.                            *)
(*                                                                         *)
(* Spec:     one entrance device and the slot camera (of slot SLOT_ID).    *)
(* SpecRace: two entrance devices.                                         *)
(***************************************************************************)

\* The next index the scan reads after i.  Slots that were never provisioned
\* have no type, no request gives them one, and the scan reads past them.
RECURSIVE NextScanIndex(_, _)
NextScanIndex(d, i) ==
    IF i + 1 > SCAN_LAST THEN SCAN_LAST + 1
    ELSE IF d.spots[i + 1].type # "<absent>" THEN i + 1
    ELSE NextScanIndex(d, i + 1)

\* raced is a history field, not a variable of the firmware: the slot for which
\* this device's scan returned while another device held the same scan result
\* and had not yet written, and that device.
NoRace == [slot |-> -1, with |-> 0]

EntBoot ==
    [pc |-> "idle", vehicleType |-> "", licensePlate |-> "", i |-> 0,
     slotId |-> -1, pend |-> <<>>, current |-> 0, checkins |-> 0,
     raced |-> NoRace]

TrkBoot == [pc |-> "idle", previousOccupied |-> FALSE, nowOccupied |-> FALSE,
            pend |-> <<>>]

\* The ledger as provisioned: every slot vacant and reset, counters at 0.
ProvisionedStores ==
    {StoreOf([i \in SlotIds |->
                IF i < NumSlots THEN VacantSlot(ty[i]) ELSE AbsentSlot], 0) :
     ty \in [0..(NumSlots - 1) -> {"car", "motorcycle"}]}

InitSystem(entrances, tracked) ==
    /\ db \in ProvisionedStores
    /\ now = Ms(6000)
    /\ ent = [e \in entrances |-> EntBoot]
    /\ trk = [k \in tracked |-> TrkBoot]
    /\ json = NoResponse
    /\ parsed = NoParse
    /\ call = NoCall
    /\ issued = <<>>
    /\ srv = NoSrv

Init == InitSystem({1}, {SLOT_ID})

InitRace == InitSystem({1, 2}, {})

RECURSIVE Started(_)
Started(es) ==
    IF es = {} THEN 0
    ELSE LET e == CHOOSE x \in es : TRUE
         IN  ent[e].checkins + (IF ent[e].pc = "idle" THEN 0 ELSE 1)
             + Started(es \ {e})

\* processVehicleCheckIn returns: its locals are gone.
Returned(x) ==
    [EntBoot EXCEPT !.checkins = x.checkins + 1, !.raced = x.raced]

\* loop() reaches processVehicleCheckIn(vehicleType, licensePlate).
Detect(e, vehicleType, licensePlate) ==
    /\ ent[e].pc = "idle"
    /\ Started(DOMAIN ent) < MaxCheckIns
    /\ ent' = [ent EXCEPT ![e].pc = "scan_type",
                          ![e].vehicleType = vehicleType,
                          ![e].licensePlate = licensePlate,
                          ![e].i = 0]
    /\ UNCHANGED <<db, now, trk, json, parsed, call, issued, srv>>

\* The scan moves on from index i: to the next index, or out of the loop with -1.
ScanOn(e) ==
    LET j == NextScanIndex(db, ent[e].i)
    IN  IF j > SCAN_LAST
        THEN [ent EXCEPT ![e].pc = "alert", ![e].i = j, ![e].slotId = -1]
        ELSE [ent EXCEPT ![e].pc = "scan_type", ![e].i = j]

\* A scan that reads the slot's type and goes on to its occupied field without
\* comparing the type with the vehicle's.
ReadType_AnyType(e, delivered) ==
    /\ ent[e].pc = "scan_type"
    /\ LET r == GetType(db, ent[e].i)
       IN  ent' = IF delivered /\ r.ok
                  THEN [ent EXCEPT ![e].pc = "scan_occupied"]
                  ELSE ScanOn(e)
    /\ UNCHANGED <<db, now, trk, json, parsed, call, issued, srv>>

\* findAvailableSlot: Firebase.getString(fbData, path + "/type")
ReadType(e, delivered) ==
    /\ ent[e].pc = "scan_type"
    /\ LET r == GetType(db, ent[e].i)
       IN  ent' = IF delivered /\ r.ok /\ r.data = ent[e].vehicleType
                  THEN [ent EXCEPT ![e].pc = "scan_occupied"]
                  ELSE ScanOn(e)
    /\ UNCHANGED <<db, now, trk, json, parsed, call, issued, srv>>

\* The devices that hold the same scan result and have not yet written their claim.
Rivals(e, s) ==
    {f \in DOMAIN ent \ {e} :
        /\ ent[f].pc = "assign"
        /\ ent[f].slotId = s
        /\ Len(ent[f].pend) = 4}

RaceNoted(e, s) ==
    IF Rivals(e, s) = {} THEN ent[e].raced
    ELSE [slot |-> s, with |-> CHOOSE f \in Rivals(e, s) : TRUE]

\* findAvailableSlot: Firebase.getBool(fbData, path + "/occupied"), and the
\* return of the scan into processVehicleCheckIn.
ReadOccupied(e, delivered) ==
    /\ ent[e].pc = "scan_occupied"
    /\ LET r == GetOccupied(db, ent[e].i)
       IN  ent' = IF delivered /\ r.ok /\ ~r.data
                  THEN [ent EXCEPT
                          ![e].pc = "assign",
                          ![e].slotId = ent[e].i,
                          ![e].pend = AssignSlot(ent[e].i, ent[e].vehicleType,
                                                 ent[e].licensePlate, now),
                          ![e].raced = RaceNoted(e, ent[e].i)]
                  ELSE ScanOn(e)
    /\ UNCHANGED <<db, now, trk, json, parsed, call, issued, srv>>

\* assignSlot: its next Firebase.set* request.
AssignWrite(e) ==
    /\ ent[e].pc = "assign"
    /\ db' = Apply(db, Head(ent[e].pend))
    /\ ent' = [ent EXCEPT ![e].pend = Tail(@),
                          ![e].pc = IF Len(ent[e].pend) = 1 THEN "incr_read" ELSE @]
    /\ UNCHANGED <<now, trk, json, parsed, call, issued, srv>>

\* incrementCheckinCount: Firebase.getInt
CountRead(e, delivered) ==
    /\ ent[e].pc = "incr_read"
    /\ LET r == GetCount(db, ent[e].vehicleType)
       IN  ent' = IF delivered /\ r.ok
                  THEN [ent EXCEPT ![e].pc = "incr_write", ![e].current = r.data]
                  ELSE [ent EXCEPT ![e].pc = "log"]
    /\ UNCHANGED <<db, now, trk, json, parsed, call, issued, srv>>

\* incrementCheckinCount: Firebase.setInt(fbData, path, current + 1)
CountWrite(e) ==
    /\ ent[e].pc = "incr_write"
    /\ db' = Apply(db, SetCount(ent[e].vehicleType, ent[e].current + 1))
    /\ ent' = [ent EXCEPT ![e].pc = "log", ![e].current = 0]
    /\ UNCHANGED <<now, trk, json, parsed, call, issued, srv>>

\* logAccess: Firebase.pushString(fbData, "logs/access", logJson)
LogPush(e) ==
    /\ ent[e].pc = "log"
    /\ db' = ApplyAll(db, LogAccess("CHECK_IN", ent[e].vehicleType,
                                    ent[e].licensePlate, ent[e].slotId, now))
    /\ ent' = [ent EXCEPT ![e] = Returned(ent[e])]
    /\ UNCHANGED <<now, trk, json, parsed, call, issued, srv>>

\* processVehicleCheckIn: Firebase.pushString(fbData, "alerts/full_capacity", alert)
AlertPush(e) ==
    /\ ent[e].pc = "alert"
    /\ db' = ApplyAll(db, FullCapacityAlert(ent[e].vehicleType, now))
    /\ ent' = [ent EXCEPT ![e] = Returned(ent[e])]
    /\ UNCHANGED <<now, trk, json, parsed, call, issued, srv>>

\* Slot camera k: loop() computed nowOccupied from the frame.
Tick(k, nowOccupied) ==
    /\ trk[k].pc = "idle"
    /\ trk' = IF nowOccupied # trk[k].previousOccupied
              THEN [trk EXCEPT ![k].pc = "update",
                               ![k].nowOccupied = nowOccupied,
                               ![k].pend = UpdateSlotOccupancy(k, nowOccupied, now)]
              ELSE trk
    /\ UNCHANGED <<db, now, ent, json, parsed, call, issued, srv>>

\* updateSlotOccupancy: its next Firebase.set* request; after the last one,
\* previousOccupied = nowOccupied.
UpdateWrite(k) ==
    /\ trk[k].pc = "update"
    /\ db' = Apply(db, Head(trk[k].pend))
    /\ trk' = IF Len(trk[k].pend) = 1
              THEN [trk EXCEPT ![k].pend = <<>>, ![k].pc = "idle",
                               ![k].previousOccupied = trk[k].nowOccupied]
              ELSE [trk EXCEPT ![k].pend = Tail(@)]
    /\ UNCHANGED <<now, ent, json, parsed, call, issued, srv>>

Next ==
    \/ \E e \in DOMAIN ent, vt \in {"car", "motorcycle"}, lp \in Plates :
            Detect(e, vt, lp)
    \/ \E e \in DOMAIN ent, delivered \in BOOLEAN : ReadType(e, delivered)
    \/ \E e \in DOMAIN ent, delivered \in BOOLEAN : ReadOccupied(e, delivered)
    \/ \E e \in DOMAIN ent : AssignWrite(e)
    \/ \E e \in DOMAIN ent, delivered \in BOOLEAN : CountRead(e, delivered)
    \/ \E e \in DOMAIN ent : CountWrite(e)
    \/ \E e \in DOMAIN ent : LogPush(e)
    \/ \E e \in DOMAIN ent : AlertPush(e)
    \/ \E k \in DOMAIN trk, occ \in BOOLEAN : Tick(k, occ)
    \/ \E k \in DOMAIN trk : UpdateWrite(k)

Spec == Init /\ [][Next]_vars

NextRace ==
    \/ \E e \in DOMAIN ent, vt \in {"car", "motorcycle"}, lp \in Plates :
            Detect(e, vt, lp)
    \/ \E e \in DOMAIN ent, delivered \in BOOLEAN : ReadType(e, delivered)
    \/ \E e \in DOMAIN ent, delivered \in BOOLEAN : ReadOccupied(e, delivered)
    \/ \E e \in DOMAIN ent : AssignWrite(e)
    \/ \E e \in DOMAIN ent, delivered \in BOOLEAN : CountRead(e, delivered)
    \/ \E e \in DOMAIN ent : CountWrite(e)
    \/ \E e \in DOMAIN ent : LogPush(e)
    \/ \E e \in DOMAIN ent : AlertPush(e)

SpecRace == InitRace /\ [][NextRace]_vars

LogsNaming(s) == {n \in 1..Len(db.logs) : db.logs[n].slot = s}

\* C3: two entrance allocators can both read the same slot as free before either
\* writes, and then both claim it: whenever that window has occurred and both
\* check-ins have returned, the slot is occupied and logs/access holds two
\* entries naming it.
C3_DoubleClaim ==
    \A e \in DOMAIN ent :
        (/\ ent[e].raced.slot >= 0
         /\ ent[e].pc = "idle"
         /\ ent[ent[e].raced.with].pc = "idle")
        => /\ Cardinality(LogsNaming(ent[e].raced.slot)) >= 2
           /\ db.spots[ent[e].raced.slot].occupied

\* Both devices read one slot as free before either wrote; both have returned,
\* and the two access-log entries name that one slot.
C3_Witness ==
    \E e \in DOMAIN ent :
        /\ ent[e].raced.slot >= 0
        /\ \A f \in DOMAIN ent : ent[f].pc = "idle"
        /\ Len(db.logs) = 2
        /\ db.logs[1].slot = ent[e].raced.slot
        /\ db.logs[2].slot = ent[e].raced.slot
        /\ db.spots[ent[e].raced.slot].occupied

Reset(r) == r.vehicle_type = "" /\ r.license_plate = "" /\ r.entry_time = 0

\* C5: when the slot camera takes its slot from occupied=true to occupied=false,
\* vehicle_type, license_plate and entry_time are reset in the same update: no
\* store state shows occupied=false with the old metadata.
C5_VacateClearsInOneUpdate ==
    [][(db.spots[SLOT_ID].occupied /\ ~db'.spots[SLOT_ID].occupied)
       => Reset(db'.spots[SLOT_ID])]_vars

\* C9: with the entrance allocator and the slot camera as the only writers, from
\* a provisioned ledger, every slot with occupied=false has vehicle_type = "",
\* license_plate = "" and entry_time = 0.
C9_VacantImpliesReset ==
    \A i \in SlotIds :
        (db.spots[i].type # "<absent>" /\ ~db.spots[i].occupied)
        => Reset(db.spots[i])

\* The same with every device between handlers.
C9_VacantImpliesResetAtRest ==
    ((\A e \in DOMAIN ent : ent[e].pc = "idle")
     /\ (\A k \in DOMAIN trk : trk[k].pc = "idle"))
    => C9_VacantImpliesReset

\* A read of the scan failed in this step of device e: the type read of a slot
\* whose type matches did not lead to the occupied read, or the occupied read
\* of a free slot did not lead to the claim.
ScanReadFailed(e) ==
    \/ /\ ent[e].pc = "scan_type"
       /\ db.spots[ent[e].i].type = ent[e].vehicleType
       /\ ent'[e].pc # "scan_occupied"
    \/ /\ ent[e].pc = "scan_occupied"
       /\ ~db.spots[ent[e].i].occupied
       /\ ent'[e].pc # "assign"

\* C13: a failed read of a slot's type or occupied field during the scan aborts
\* the allocation attempt with the capacity-exhausted outcome: the scan goes no
\* further and the check-in ends in the full-capacity alert, also when a later
\* slot of the range is a free slot of the matching type.
C13_ReadFailureAborts ==
    [][\A e \in DOMAIN ent : ScanReadFailed(e) => ent'[e].pc = "alert"]_vars

CheckInsLogged(t) ==
    Cardinality({n \in 1..Len(db.logs) :
                    db.logs[n].action = "CHECK_IN" /\ db.logs[n].type = t})

\* C30: from a store whose counters are 0 and whose access log is empty, with
\* two entrance devices running check-ins concurrently, whenever no check-in is
\* in progress every checkin_count/<type> equals the number of CHECK_IN entries
\* of that type in logs/access.
C30_CounterMatchesLog ==
    (\A e \in DOMAIN ent : ent[e].pc = "idle")
    => \A t \in VehicleTypes : db.checkin[t] = CheckInsLogged(t)

\* What does hold: a counter never exceeds the number of check-ins of its type
\* that are logged or past their counter write.
C30_CounterAtMostLog ==
    \A t \in VehicleTypes :
        db.checkin[t] <= CheckInsLogged(t)
            + Cardinality({e \in DOMAIN ent :
                             ent[e].pc = "log" /\ ent[e].vehicleType = t})

\* The slots some allocator has written vehicle_type to.
TypedByAllocator == {i \in SlotIds : db.spots[i].vehicle_type # ""}

\* C31: every write of a check-in's claim addresses the one slot its scan
\* returned, and the vehicle_type it writes is the type it read for that slot;
\* so with two allocators claiming concurrently every slot whose vehicle_type
\* an allocator has set has vehicle_type equal to its type.
C31_TypeCompatibleClaims ==
    /\ \A e \in DOMAIN ent :
          ent[e].pc = "assign"
          => /\ ent[e].slotId \in SlotIds
             /\ db.spots[ent[e].slotId].type = ent[e].vehicleType
             /\ \A n \in 1..Len(ent[e].pend) :
                   /\ ent[e].pend[n].ns = "parking_spots"
                   /\ ent[e].pend[n].key = ent[e].slotId
                   /\ ent[e].pend[n].field = "vehicle_type"
                      => ent[e].pend[n].val = db.spots[ent[e].slotId].type
    /\ \A i \in SlotIds :
          db.spots[i].vehicle_type # ""
          => db.spots[i].vehicle_type = db.spots[i].type

\* Both allocators have returned: one claimed a car slot and the other a
\* motorcycle slot, or both claimed one slot in the same window.
C31_Witness ==
    /\ \A e \in DOMAIN ent : ent[e].pc = "idle"
    /\ Len(db.logs) = 2
    /\ TypedByAllocator # {}
    /\ \/ \E i, k \in TypedByAllocator :
             db.spots[i].vehicle_type = "car" /\ db.spots[k].vehicle_type = "motorcycle"
       \/ \E e \in DOMAIN ent : ent[e].raced.slot \in TypedByAllocator

(***************************************************************************)
(* SpecVacate: the vacate path on its own.  Init draws the record of slot  *)
(* SLOT_ID from every combination of field values; the slot camera's       *)
(* updateSlotOccupancy(false) and the dashboard's clearSlot are then       *)
(* applied up to MaxVacates times, with the clock moving between calls.    *)
(* call.once is the record as the first application left it.               *)
(***************************************************************************)
SlotRecords ==
    [type : VehicleTypes, occupied : BOOLEAN,
     vehicle_type : VehicleTypes \cup {""}, license_plate : Plates,
     entry_time : {0, 6}]

InitVacate ==
    /\ \E r \in SlotRecords :
          db = [EmptyStore EXCEPT !.spots[SLOT_ID] = r]
    /\ now \in {Ms(6000), Ms(61000)}
    /\ ent = NoEnt
    /\ trk = NoTrk
    /\ json = NoResponse
    /\ parsed = NoParse
    /\ call = [fn |-> "none", n |-> 0, once |-> AbsentSlot]
    /\ issued = <<>>
    /\ srv = NoSrv

Vacated(fn, ws, took) ==
    /\ call.n < MaxVacates
    /\ issued' = ws
    /\ db' = ApplyAll(db, ws)
    /\ call' = [fn |-> fn, n |-> call.n + 1,
                once |-> IF call.n = 0 THEN db'.spots[SLOT_ID] ELSE call.once]
    /\ now' = Later(now, took)
    /\ UNCHANGED <<ent, trk, json, parsed, srv>>

VacateByTracker(took) ==
    Vacated("updateSlotOccupancy", UpdateSlotOccupancy(SLOT_ID, FALSE, now), took)

VacateByAdmin(took) ==
    Vacated("clearSlot", ClearSlot(SLOT_ID), took)

NextVacate ==
    \/ \E took \in {Ms(100), Ms(2000)} : VacateByTracker(took)
    \/ \E took \in {Ms(100), Ms(2000)} : VacateByAdmin(took)

SpecVacate == InitVacate /\ [][NextVacate]_vars

\* C8: running the vacate path (updateSlotOccupancy(false) or clearSlot) a
\* second time in a row leaves the slot record exactly as the first run left it.
C8_IdempotentVacate ==
    call.n >= 2 => db.spots[SLOT_ID] = call.once

\* The vacate path has run twice on a record that was occupied with metadata.
C8_Witness ==
    /\ call.n = 2
    /\ call.fn = "updateSlotOccupancy"
    /\ db.spots[SLOT_ID] = VacantSlot(db.spots[SLOT_ID].type)
    /\ call.once = db.spots[SLOT_ID]

(***************************************************************************)
(* Device loops, one loop() iteration per step.  An iteration is a function *)
(* of the store, the clock and the device's globals at its start and of    *)
(* what the camera and the classifier deliver during it; took is the time  *)
(* each network phase of the iteration takes.                              *)
(***************************************************************************)
DETECTION_COOLDOWN_MS == Ms(5000)
HEARTBEAT_INTERVAL == Ms(30000)
CHECK_INTERVAL_MS == Ms(15000)
SLOT_HEARTBEAT_MS == Ms(30000)

Outcome(d, t, x, ws, path, due) ==
    [db |-> d, now |-> t, loc |-> x, issued |-> ws, path |-> path,
     heartbeat |-> due]

\* The capture path with the cooldown timer restarted only when a slot was
\* assigned.
CaptureAndDetect_ResetOnAssignOnly(d1, t1, x1, hb, due, capture, response, took) ==
    LET t2 == Later(t1, took)
        p == ParseRoboflowResponse(response, ParseInit)
        ws == ProcessVehicleCheckIn(d1, p.vehicleType, p.licensePlate, t2)
        t3 == Later(t2, took)
    IN  IF ~capture
        THEN Outcome(d1, Later(t1, Ms(500)), x1, hb, "capture_failed", due)
        ELSE IF response.kind = "empty"
        THEN Outcome(d1, Later(t2, Ms(500)), x1, hb, "empty", due)
        ELSE IF VehicleAccepted(p)
        THEN Outcome(ApplyAll(d1, ws), Later(t3, Ms(200)),
                     IF FindAvailableSlot(d1, p.vehicleType) >= 0
                     THEN [x1 EXCEPT !.lastDetectionTime = t3] ELSE x1,
                     hb \o ws, "checkin", due)
        ELSE Outcome(d1, Later(t2, Ms(200)), x1, hb, "no_vehicle", due)

\* loop() of the entrance firmware from the capture on, at time t1.
CaptureAndDetect(d1, t1, x1, hb, due, capture, response, took) ==
    LET t2 == Later(t1, took)
        p == ParseRoboflowResponse(response, ParseInit)
        ws == ProcessVehicleCheckIn(d1, p.vehicleType, p.licensePlate, t2)
        t3 == Later(t2, took)
    IN  IF ~capture
        THEN Outcome(d1, Later(t1, Ms(500)), x1, hb, "capture_failed", due)
        ELSE IF response.kind = "empty"
        THEN Outcome(d1, Later(t2, Ms(500)), x1, hb, "empty", due)
        ELSE IF VehicleAccepted(p)
        THEN Outcome(ApplyAll(d1, ws), Later(t3, Ms(200)),
                     [x1 EXCEPT !.lastDetectionTime = t3], hb \o ws,
                     "checkin", due)
        ELSE Outcome(d1, Later(t2, Ms(200)), x1, hb, "no_vehicle", due)

\* The entrance loop with the cooldown test moved in front of the heartbeat.
EntranceLoop_CooldownFirst(d, t, x, capture, response, took) ==
    LET due == Elapsed(t, x.lastHeartbeatTime) > HEARTBEAT_INTERVAL
        hb == IF due THEN SendHeartbeat(ENTRANCE_CAMERA_ID, t) ELSE <<>>
        t1 == IF due THEN Later(t, took) ELSE t
        x1 == IF due THEN [x EXCEPT !.lastHeartbeatTime = t1] ELSE x
    IN  IF Elapsed(t, x.lastDetectionTime) < DETECTION_COOLDOWN_MS
        THEN Outcome(d, Later(t, Ms(100)), x, <<>>, "cooldown", FALSE)
        ELSE CaptureAndDetect(ApplyAll(d, hb), t1, x1, hb, due, capture,
                              response, took)

\* The entrance loop with the cooldown timer restarted by every iteration that
\* waits out the cooldown.
EntranceLoop_CooldownRestarts(d, t, x, capture, response, took) ==
    LET due == Elapsed(t, x.lastHeartbeatTime) > HEARTBEAT_INTERVAL
        hb == IF due THEN SendHeartbeat(ENTRANCE_CAMERA_ID, t) ELSE <<>>
        t1 == IF due THEN Later(t, took) ELSE t
        x1 == IF due THEN [x EXCEPT !.lastHeartbeatTime = t1] ELSE x
        d1 == ApplyAll(d, hb)
    IN  IF Elapsed(t1, x1.lastDetectionTime) < DETECTION_COOLDOWN_MS
        THEN Outcome(d1, Later(t1, Ms(100)),
                     [x1 EXCEPT !.lastDetectionTime = t1], hb, "cooldown", due)
        ELSE CaptureAndDetect(d1, t1, x1, hb, due, capture, response, took)

\* The entrance loop with the cooldown test skipped by an iteration that sent
\* the heartbeat.
EntranceLoop_HeartbeatSkipsCooldown(d, t, x, capture, response, took) ==
    LET due == Elapsed(t, x.lastHeartbeatTime) > HEARTBEAT_INTERVAL
        hb == IF due THEN SendHeartbeat(ENTRANCE_CAMERA_ID, t) ELSE <<>>
        t1 == IF due THEN Later(t, took) ELSE t
        x1 == IF due THEN [x EXCEPT !.lastHeartbeatTime = t1] ELSE x
        d1 == ApplyAll(d, hb)
    IN  IF ~due /\ Elapsed(t1, x1.lastDetectionTime) < DETECTION_COOLDOWN_MS
        THEN Outcome(d1, Later(t1, Ms(100)), x1, hb, "cooldown", due)
        ELSE CaptureAndDetect(d1, t1, x1, hb, due, capture, response, took)

\* void loop() of the entrance firmware
EntranceLoop(d, t, x, capture, response, took) ==
    LET due == Elapsed(t, x.lastHeartbeatTime) > HEARTBEAT_INTERVAL
        hb == IF due THEN SendHeartbeat(ENTRANCE_CAMERA_ID, t) ELSE <<>>
        t1 == IF due THEN Later(t, took) ELSE t
        x1 == IF due THEN [x EXCEPT !.lastHeartbeatTime = t1] ELSE x
        d1 == ApplyAll(d, hb)
    IN  IF Elapsed(t1, x1.lastDetectionTime) < DETECTION_COOLDOWN_MS
        THEN Outcome(d1, Later(t1, Ms(100)), x1, hb, "cooldown", due)
        ELSE CaptureAndDetect(d1, t1, x1, hb, due, capture, response, took)

\* The slot-camera loop comparing the presence with the occupied flag it reads
\* back from the store on every tick.
TrackerLoop_RereadsStore(d, t, x, capture, response, took) ==
    LET due == Elapsed(t, x.lastHeartbeat) > SLOT_HEARTBEAT_MS
        hb == IF due THEN SendHeartbeat(SLOT_CAMERA_ID, t) ELSE <<>>
        t1 == IF due THEN Later(t, took) ELSE t
        x1 == IF due THEN [x EXCEPT !.lastHeartbeat = t1] ELSE x
        d1 == ApplyAll(d, hb)
        x2 == [x1 EXCEPT !.lastCheckTime = t1]
        t2 == Later(t1, took)
        nowOccupied == DetectVehiclePresence(response)
        ws == UpdateSlotOccupancy(SLOT_ID, nowOccupied, t2)
    IN  IF Elapsed(t1, x1.lastCheckTime) < CHECK_INTERVAL_MS
        THEN Outcome(d1, Later(t1, Ms(100)), x1, hb, "wait", due)
        ELSE IF ~capture
        THEN Outcome(d1, Later(t1, Ms(500)), x2, hb, "capture_failed", due)
        ELSE IF response.kind = "empty"
        THEN Outcome(d1, t2, x2, hb, "empty", due)
        ELSE IF nowOccupied # GetOccupied(d1, SLOT_ID).data
        THEN Outcome(ApplyAll(d1, ws), Later(t2, took),
                     [x2 EXCEPT !.previousOccupied = nowOccupied], hb \o ws,
                     "changed", due)
        ELSE Outcome(d1, t2, x2, hb, "unchanged", due)

\* void loop() of the slot-camera firmware
TrackerLoop(d, t, x, capture, response, took) ==
    LET due == Elapsed(t, x.lastHeartbeat) > SLOT_HEARTBEAT_MS
        hb == IF due THEN SendHeartbeat(SLOT_CAMERA_ID, t) ELSE <<>>
        t1 == IF due THEN Later(t, took) ELSE t
        x1 == IF due THEN [x EXCEPT !.lastHeartbeat = t1] ELSE x
        d1 == ApplyAll(d, hb)
        x2 == [x1 EXCEPT !.lastCheckTime = t1]
        t2 == Later(t1, took)
        nowOccupied == DetectVehiclePresence(response)
        ws == UpdateSlotOccupancy(SLOT_ID, nowOccupied, t2)
    IN  IF Elapsed(t1, x1.lastCheckTime) < CHECK_INTERVAL_MS
        THEN Outcome(d1, Later(t1, Ms(100)), x1, hb, "wait", due)
        ELSE IF ~capture
        THEN Outcome(d1, Later(t1, Ms(500)), x2, hb, "capture_failed", due)
        ELSE IF response.kind = "empty"
        THEN Outcome(d1, t2, x2, hb, "empty", due)
        ELSE IF nowOccupied # x.previousOccupied
        THEN Outcome(ApplyAll(d1, ws), Later(t2, took),
                     [x2 EXCEPT !.previousOccupied = nowOccupied], hb \o ws,
                     "changed", due)
        ELSE Outcome(d1, t2, x2, hb, "unchanged", due)

\* What the camera and the classifier deliver in the loop specifications.
Frames ==
    { [kind |-> "empty", predictions |-> <<>>],
      [kind |-> "malformed", predictions |-> <<>>],
      [kind |-> "ok", predictions |-> <<>>],
      [kind |-> "ok", predictions |-> <<[class |-> "car", confidence |-> 60]>>],
      [kind |-> "ok", predictions |-> <<[class |-> "car", confidence |-> 54]>>],
      [kind |-> "ok",
       predictions |-> <<[class |-> "license_plate", confidence |-> 60],
                         [class |-> "motorcycle", confidence |-> 55]>>] }

Latencies == {Ms(1000), Ms(15000)}

IdleLoop == [fn |-> "loop", n |-> 0, path |-> "boot", heartbeat |-> FALSE,
             start |-> 0]

LoopStep(o, capture, response) ==
    /\ call.n < MaxLoops
    /\ db' = o.db
    /\ now' = o.now
    /\ issued' = o.issued
    /\ json' = IF capture THEN response ELSE NoResponse
    /\ call' = [fn |-> "loop", n |-> call.n + 1, path |-> o.path,
                heartbeat |-> o.heartbeat, start |-> now]
    /\ UNCHANGED <<parsed, srv>>

(***************************************************************************)
(* SpecEntrance: the entrance loop on a provisioned ledger.  The device    *)
(* starts its first iteration some time after reset (setup() joins the     *)
(* network first), or is met late in the life of the millisecond counter.  *)
(***************************************************************************)
EntranceStarts ==
    { [now |-> Ms(3000), loc |-> NoEnt],
      [now |-> Ms(29500), loc |-> NoEnt],
      [now |-> Ms(31000), loc |-> NoEnt],
      [now |-> MILLIS_WRAP - Ms(2000),
       loc |-> [lastDetectionTime |-> MILLIS_WRAP - Ms(22000),
                lastHeartbeatTime |-> MILLIS_WRAP - Ms(31000)]] }

InitEntrance ==
    /\ db \in ProvisionedStores
    /\ \E s \in EntranceStarts : now = s.now /\ ent = s.loc
    /\ trk = NoTrk
    /\ json = NoResponse
    /\ parsed = NoParse
    /\ call = IdleLoop
    /\ issued = <<>>
    /\ srv = NoSrv

EntranceIteration(capture, response, took) ==
    LET o == EntranceLoop(db, now, ent, capture, response, took)
    IN  /\ LoopStep(o, capture, response)
        /\ ent' = o.loc
        /\ UNCHANGED trk

NextEntrance ==
    \E capture \in BOOLEAN, response \in Frames, took \in Latencies :
        EntranceIteration(capture, response, took)

SpecEntrance == InitEntrance /\ [][NextEntrance]_vars

HeartbeatDue == Elapsed(now, ent.lastHeartbeatTime) > HEARTBEAT_INTERVAL

CooldownActive == Elapsed(now, ent.lastDetectionTime) < DETECTION_COOLDOWN_MS

\* C10: the entrance loop tests the heartbeat before the cooldown: an iteration
\* that starts more than HEARTBEAT_INTERVAL after the last heartbeat writes the
\* heartbeat (status "online", last_heartbeat in uptime seconds) and restarts
\* the heartbeat timer, also when the cooldown makes it return without a capture.
C10_HeartbeatBeforeCooldown ==
    [][(call'.n = call.n + 1 /\ HeartbeatDue)
       => /\ Len(issued') >= 2
          /\ SubSeq(issued', 1, 2) = SendHeartbeat(ENTRANCE_CAMERA_ID, now)
          /\ db'.cameras[ENTRANCE_CAMERA_ID] =
                [status |-> "online", last_heartbeat |-> Seconds(now)]
          /\ ent'.lastHeartbeatTime # ent.lastHeartbeatTime
          /\ Elapsed(ent'.lastHeartbeatTime, now) <= Elapsed(now', now)]_vars

\* An iteration inside the cooldown that follows a detection wrote the
\* heartbeat and returned without a capture.
C10_Witness ==
    /\ call.fn = "loop"
    /\ call.path = "cooldown"
    /\ call.heartbeat
    /\ ent.lastDetectionTime > 0
    /\ Len(db.logs) + Len(db.alerts) > 0
    /\ issued = SendHeartbeat(ENTRANCE_CAMERA_ID, call.start)
    /\ db.cameras[ENTRANCE_CAMERA_ID].last_heartbeat = Seconds(call.start)

\* processVehicleCheckIn ran in the iteration that issued ws: it ends in the
\* access-log append or in the full-capacity alert.
Reconciled(ws) ==
    \E n \in 1..Len(ws) : ws[n].op = "push" /\ ws[n].ns \in {"logs", "alerts"}

\* C11: an entrance loop iteration that calls processVehicleCheckIn restarts the
\* cooldown timer (lastDetectionTime = millis() right after the call, 200 ms
\* before the iteration ends), whether a slot was assigned or the alert was
\* pushed; every other iteration leaves lastDetectionTime as it was.
C11_CooldownReset ==
    [][(call'.n = call.n + 1)
       => IF Reconciled(issued')
          THEN /\ Elapsed(now', ent'.lastDetectionTime) = Ms(200)
               /\ ent'.lastDetectionTime # ent.lastDetectionTime
          ELSE ent'.lastDetectionTime = ent.lastDetectionTime]_vars

\* A run with an assigned check-in and a capacity-exhausted one, the last
\* iteration being a check-in that restarted the timer.
C11_Witness ==
    /\ call.fn = "loop"
    /\ call.path = "checkin"
    /\ Len(db.logs) >= 1
    /\ Len(db.alerts) >= 1
    /\ Reconciled(issued)
    /\ Elapsed(now, ent.lastDetectionTime) = Ms(200)

\* C17: an entrance loop iteration that receives a malformed payload obtains no
\* vehicle classification, does not call processVehicleCheckIn (the cooldown
\* timer is not restarted), issues no write but those of a due heartbeat,
\* leaves the ledger, the counters, the alerts and the access log as they were,
\* and returns after its 200 ms pause.
C17_ParseFailureFailsClosed ==
    [][(/\ call'.n = call.n + 1
        /\ call'.path \notin {"cooldown", "capture_failed"}
        /\ json'.kind = "malformed")
       => /\ ParseRoboflowResponse(json', ParseInit).vehicleType = ""
          /\ call'.path = "no_vehicle"
          /\ ~Reconciled(issued')
          /\ \A n \in 1..Len(issued') : issued'[n].ns = "cameras"
          /\ db'.spots = db.spots
          /\ db'.checkin = db.checkin
          /\ db'.alerts = db.alerts
          /\ db'.logs = db.logs
          /\ ent'.lastDetectionTime = ent.lastDetectionTime
          /\ Elapsed(now', now) >= Ms(200)]_vars

\* After a check-in, a later iteration received a malformed payload and ended
\* as "no vehicle".
C17_Witness ==
    /\ call.fn = "loop"
    /\ call.n >= 2
    /\ call.path = "no_vehicle"
    /\ json.kind = "malformed"
    /\ Len(db.logs) >= 1
    /\ ~Reconciled(issued)

LedgerWrites(ws) ==
    SelectSeq(ws, LAMBDA w : w.ns \in {"parking_spots", "checkin_count",
                                       "alerts", "logs"})

\* The iteration that ends in this step captured a frame and the interpreter
\* returned a vehicle type with confidence at or above the threshold.
VehicleFound ==
    LET p == ParseRoboflowResponse(json', ParseInit)
    IN  /\ call'.path \notin {"cooldown", "capture_failed"}
        /\ p.vehicleType # ""
        /\ p.confidence >= CONFIDENCE_THRESHOLD

\* C22: the entrance loop runs processVehicleCheckIn only in an iteration in
\* which the interpreter returned a non-empty vehicle type with confidence >=
\* CONFIDENCE_THRESHOLD; every other iteration (cooldown, capture failure, empty
\* response, no vehicle, below threshold) issues no write to parking_spots,
\* checkin_count, alerts or logs and leaves them as they were.
C22_ReconcilingGate ==
    [][(call'.n = call.n + 1)
       => /\ Reconciled(issued') => VehicleFound
          /\ ~VehicleFound
                => /\ LedgerWrites(issued') = <<>>
                   /\ db'.spots = db.spots
                   /\ db'.checkin = db.checkin
                   /\ db'.alerts = db.alerts
                   /\ db'.logs = db.logs]_vars

\* After a check-in, a car seen with confidence 0.54 was not reconciled.
C22_Witness ==
    /\ call.fn = "loop"
    /\ call.path = "no_vehicle"
    /\ json.kind = "ok"
    /\ ParseRoboflowResponse(json, ParseInit).vehicleType = "car"
    /\ ParseRoboflowResponse(json, ParseInit).confidence = 54
    /\ Len(db.logs) >= 1
    /\ LedgerWrites(issued) = <<>>

\* millis() when the iteration of this step reaches the cooldown test: the
\* start of the iteration, or the time the heartbeat block stamped into
\* lastHeartbeatTime just before the test.
CooldownTestedAt == IF HeartbeatDue THEN ent'.lastHeartbeatTime ELSE now

\* C23: an entrance loop iteration attempts a capture (and then a classifier
\* call) only when at least DETECTION_COOLDOWN_MS has elapsed, at the cooldown
\* test, since the cooldown timer was last set; within that time after a
\* detection every iteration returns without capture or classifier call.  An
\* iteration that detects no vehicle leaves the cooldown timer as it was.
C23_CooldownEnforced ==
    [][(call'.n = call.n + 1)
       => /\ call'.path # "cooldown"
                => Elapsed(CooldownTestedAt, ent.lastDetectionTime)
                      >= DETECTION_COOLDOWN_MS
          /\ call'.path = "cooldown"
                => /\ Elapsed(CooldownTestedAt, ent.lastDetectionTime)
                         < DETECTION_COOLDOWN_MS
                   /\ ~Reconciled(issued')
                   /\ ent'.lastDetectionTime = ent.lastDetectionTime
          /\ call'.path # "checkin"
                => ent'.lastDetectionTime = ent.lastDetectionTime]_vars

\* After a detection an iteration that began inside the cooldown sent a slow
\* heartbeat and captured once 5 s had passed since the timer was set.
C23_Witness ==
    /\ call.fn = "loop"
    /\ call.n >= 3
    /\ call.path \in {"no_vehicle", "empty", "capture_failed"}
    /\ Len(db.logs) + Len(db.alerts) >= 1
    /\ ent.lastDetectionTime > 0
    /\ Elapsed(call.start, ent.lastDetectionTime) < DETECTION_COOLDOWN_MS
    /\ Elapsed(now, ent.lastDetectionTime) >= DETECTION_COOLDOWN_MS

(***************************************************************************)
(* SpecTracker: the slot-camera loop.  setup() reads the slot's occupied   *)
(* flag into previousOccupied; a failed read leaves it false.              *)
(***************************************************************************)
ClaimedSlot(t) ==
    [type |-> t, occupied |-> TRUE, vehicle_type |-> t,
     license_plate |-> "PLATE_DETECTED", entry_time |-> 6]

TrackerStores ==
    {[EmptyStore EXCEPT !.spots[SLOT_ID] = r] :
        r \in {VacantSlot("car"), ClaimedSlot("car"), OccupiedSlot("truck")}}

InitTracker ==
    /\ db \in TrackerStores
    /\ now \in {Ms(14900), Ms(16000), Ms(31000)}
    /\ ent = NoEnt
    /\ \E delivered \in BOOLEAN :
          trk = [NoTrk EXCEPT !.previousOccupied =
                    delivered /\ db.spots[SLOT_ID].occupied]
    /\ json = NoResponse
    /\ parsed = NoParse
    /\ call = IdleLoop
    /\ issued = <<>>
    /\ srv = NoSrv

TrackerIteration(capture, response, took) ==
    LET o == TrackerLoop(db, now, trk, capture, response, took)
    IN  /\ LoopStep(o, capture, response)
        /\ trk' = o.loc
        /\ UNCHANGED ent

NextTracker ==
    \E capture \in BOOLEAN, response \in Frames, took \in Latencies :
        TrackerIteration(capture, response, took)

SpecTracker == InitTracker /\ [][NextTracker]_vars

SlotWrites(ws) == SelectSeq(ws, LAMBDA w : w.ns = "parking_spots")

\* C4: a slot-camera tick whose presence equals previousOccupied issues no write
\* to the slot record; a tick whose presence differs issues exactly one.
C4_ChangeOnlyWrite ==
    [][(call'.n = call.n + 1 /\ call'.path \in {"changed", "unchanged"})
       => IF DetectVehiclePresence(json') = trk.previousOccupied
          THEN SlotWrites(issued') = <<>>
          ELSE Len(SlotWrites(issued')) = 1]_vars

\* The part about unchanged ticks alone.
C4_NoWriteWhenUnchanged ==
    [][(call'.n = call.n + 1 /\ call'.path \in {"changed", "unchanged"}
        /\ DetectVehiclePresence(json') = trk.previousOccupied)
       => SlotWrites(issued') = <<>> /\ db'.spots = db.spots]_vars

NoDetections == [kind |-> "ok", predictions |-> <<>>]

\* What a tick that receives response leaves in previousOccupied and in the
\* slot record, from the current state; none when the iteration is not a tick
\* (the check interval has not passed).
TickEffect(response, took) ==
    LET o == TrackerLoop(db, now, trk, TRUE, response, took)
    IN  [ticked |-> o.path # "wait",
         previousOccupied |-> o.loc.previousOccupied,
         slot |-> o.db.spots[SLOT_ID]]

\* The step is a tick that captured a frame and received a response of kind k.
Received(k) ==
    /\ call'.n = call.n + 1
    /\ call'.path \in {"empty", "changed", "unchanged"}
    /\ json'.kind = k

SameAsNoDetections ==
    \A took \in Latencies :
        LET e == TickEffect(NoDetections, took)
        IN  e.ticked => /\ trk'.previousOccupied = e.previousOccupied
                        /\ db'.spots[SLOT_ID] = e.slot

\* C16 as claimed: a tick that receives an empty response (transport failure)
\* or a malformed body leaves previousOccupied and the slot record as a
\* well-formed response with no detections would.
C16_FailuresAreNoDetections ==
    [][(Received("empty") \/ Received("malformed")) => SameAsNoDetections]_vars

\* C16, amended: a tick that receives a malformed body leaves previousOccupied
\* and the slot record as a well-formed response with no detections would (a
\* slot held occupied is vacated); a tick that receives an empty response
\* leaves previousOccupied and the slot record as they were.
C16_MalformedIsNoDetections ==
    [][/\ Received("malformed") => SameAsNoDetections
       /\ Received("empty") => /\ trk'.previousOccupied = trk.previousOccupied
                               /\ db'.spots[SLOT_ID] = db.spots[SLOT_ID]
                               /\ SlotWrites(issued') = <<>>]_vars

\* A malformed body vacated a slot that was held occupied.
C16_Witness ==
    /\ call.fn = "loop"
    /\ call.path = "changed"
    /\ json.kind = "malformed"
    /\ ~trk.previousOccupied
    /\ ~db.spots[SLOT_ID].occupied
    /\ Len(SlotWrites(issued)) = 4

\* The step is the first tick after boot: no tick has stamped lastCheckTime.
FirstTick ==
    /\ call'.n = call.n + 1
    /\ trk.lastCheckTime = 0
    /\ call'.path # "wait"

\* C19: on the first tick after boot the slot camera writes the slot record
\* only if the presence it observes differs from the occupied value the store
\* held at boot (no one else writes the slot here, so that is the value the
\* store holds when the tick starts).
C19_ColdStart ==
    [][(FirstTick /\ SlotWrites(issued') # <<>>)
       => DetectVehiclePresence(json') # db.spots[SLOT_ID].occupied]_vars

\* The same for the boots whose read of the occupied flag was delivered.
C19_ColdStartWhenRead ==
    [][(/\ FirstTick
        /\ trk.previousOccupied = db.spots[SLOT_ID].occupied
        /\ SlotWrites(issued') # <<>>)
       => DetectVehiclePresence(json') # db.spots[SLOT_ID].occupied]_vars

(***************************************************************************)
(* SpecLive: one device looping for ever, one loop() iteration per step.   *)
(* loop() computes nothing from millis() and its time stamps but the ages  *)
(* millis() - last..., so this specification keeps the clock at LIVE_BASE  *)
(* and re-expresses the cooldown and check-interval time stamps by their   *)
(* age after every iteration, an age counting no further than the          *)
(* threshold it is compared with.  The heartbeat timer's age is not kept:  *)
(* an iteration meets the heartbeat either due or not due.  The store is   *)
(* shared: each iteration meets it as other clients (or an outage, in      *)
(* which every read fails and every write is lost) left it, and what the   *)
(* iteration writes is not kept.  call.flip changes with every iteration   *)
(* that attempted a capture.  A call of loop() that has started returns    *)
(* (each blocking call returns), and the runtime calls loop() again: weak  *)
(* fairness of the step.                                                   *)
(***************************************************************************)
LIVE_BASE == Ms(60000)

Aged(t, last, cap) ==
    LET age == Elapsed(t, last)
    IN  LIVE_BASE - (IF age > cap THEN cap ELSE age)

StoreViews ==
    { EmptyStore,
      [EmptyStore EXCEPT !.spots[SLOT_ID] = VacantSlot("car")] }

\* A transport failure, a malformed body, no detection, a vehicle.
LiveFrames ==
    {f \in Frames : Len(f.predictions) = 0
                    \/ (Len(f.predictions) = 1 /\ f.predictions[1].confidence = 60)}

CapturePaths == {"capture_failed", "empty", "no_vehicle", "checkin",
                 "changed", "unchanged"}

\* The heartbeat timer as an iteration at time t meets it.
Heartbeat(t, due) ==
    IF due THEN t - (HEARTBEAT_INTERVAL + 1) ELSE t

InitLive ==
    /\ db = EmptyStore
    /\ now = LIVE_BASE
    /\ ent = [lastDetectionTime |-> LIVE_BASE - DETECTION_COOLDOWN_MS,
              lastHeartbeatTime |-> LIVE_BASE]
    /\ \E b \in BOOLEAN :
          trk = [previousOccupied |-> b,
                 lastCheckTime |-> LIVE_BASE - CHECK_INTERVAL_MS,
                 lastHeartbeat |-> LIVE_BASE]
    /\ json = NoResponse
    /\ parsed = NoParse
    /\ \E dev \in {"entrance", "slot"} :
          call = [fn |-> "loop", device |-> dev, pc |-> "idle",
                  path |-> "boot", flip |-> FALSE]
    /\ issued = <<>>
    /\ srv = NoSrv

\* The runtime calls loop().
LoopCalled ==
    /\ call.pc = "idle"
    /\ call' = [call EXCEPT !.pc = "running"]
    /\ UNCHANGED <<db, now, ent, trk, json, parsed, issued, srv>>

Flipped(path) == IF path \in CapturePaths THEN ~call.flip ELSE call.flip

\* loop() of the entrance returns.
EntranceReturns(d, capture, response, took, due) ==
    LET x == [ent EXCEPT !.lastHeartbeatTime = Heartbeat(now, due)]
        o == EntranceLoop(d, now, x, capture, response, took)
    IN  /\ call.pc = "running"
        /\ call.device = "entrance"
        /\ ent' = [lastDetectionTime |->
                      Aged(o.now, o.loc.lastDetectionTime, DETECTION_COOLDOWN_MS),
                   lastHeartbeatTime |-> LIVE_BASE]
        /\ call' = [call EXCEPT !.pc = "idle", !.path = o.path,
                                !.flip = Flipped(o.path)]
        /\ UNCHANGED <<db, now, trk, json, parsed, issued, srv>>

\* loop() of the slot camera returns.
TrackerReturns(d, capture, response, took, due) ==
    LET x == [trk EXCEPT !.lastHeartbeat = Heartbeat(now, due)]
        o == TrackerLoop(d, now, x, capture, response, took)
    IN  /\ call.pc = "running"
        /\ call.device = "slot"
        /\ trk' = [previousOccupied |-> o.loc.previousOccupied,
                   lastCheckTime |->
                      Aged(o.now, o.loc.lastCheckTime, CHECK_INTERVAL_MS),
                   lastHeartbeat |-> LIVE_BASE]
        /\ call' = [call EXCEPT !.pc = "idle", !.path = o.path,
                                !.flip = Flipped(o.path)]
        /\ UNCHANGED <<db, now, ent, json, parsed, issued, srv>>

NextLive ==
    \/ LoopCalled
    \/ \E d \in StoreViews, capture \in BOOLEAN, response \in LiveFrames,
          took \in Latencies, due \in BOOLEAN :
            EntranceReturns(d, capture, response, took, due)
    \/ \E d \in StoreViews, capture \in BOOLEAN, response \in LiveFrames,
          took \in Latencies, due \in BOOLEAN :
            TrackerReturns(d, capture, response, took, due)

SpecLive == InitLive /\ [][NextLive]_vars /\ WF_vars(NextLive)

\* C12: no failure halts a device.  Whatever the camera, the classifier and the
\* store do (capture failure, empty or malformed response, nothing above the
\* threshold, full ledger, failed reads, lost writes), a loop() that has been
\* called returns, and from every state a further iteration attempts a capture.
C12_NoFailureHalts ==
    /\ [](call.pc = "running" => <>(call.pc = "idle"))
    /\ \A b \in BOOLEAN : [](call.flip = b => <>(call.flip # b))

\* The slot camera is back at the top of loop() after a transport failure of
\* the classifier, the path that returns without a pause.
C12_Witness ==
    /\ call.fn = "loop"
    /\ call.pc = "idle"
    /\ call.device = "slot"
    /\ call.path = "empty"
    /\ call.flip


(***************************************************************************)
(* SpecDevices: the three firmwares looping against the same store, one    *)
(* loop() iteration of one device per step.  Each device has its own       *)
(* millis(), kept with its globals; now is the clock of the device that    *)
(* ran last.                                                               *)
(***************************************************************************)
STREAM_CAMERA_ID == "entrance"      \* stream server: #define CAMERA_ID
STREAM_HEARTBEAT_MS == Ms(30000)

\* The two writes of the stream server's loop().
StreamHeartbeat(t) ==
    << SetCamera(STREAM_CAMERA_ID, "status", "online"),
       SetCamera(STREAM_CAMERA_ID, "last_heartbeat", Seconds(t)) >>

\* void loop() of the stream server
StreamLoop(d, t, x, took) ==
    LET due == Elapsed(t, x.lastHB) > STREAM_HEARTBEAT_MS
        hb == IF due THEN StreamHeartbeat(t) ELSE <<>>
        t1 == IF due THEN Later(t, took) ELSE t
        x1 == IF due THEN [x EXCEPT !.lastHB = t1] ELSE x
    IN  Outcome(ApplyAll(d, hb), Later(t1, Ms(100)), x1, hb,
                IF due THEN "heartbeat" ELSE "idle", due)

DeviceFrames ==
    { [kind |-> "empty", predictions |-> <<>>],
      [kind |-> "malformed", predictions |-> <<>>],
      [kind |-> "ok", predictions |-> <<>>],
      [kind |-> "ok", predictions |-> <<[class |-> "car", confidence |-> 60]>>] }

InitDevices ==
    /\ db \in ProvisionedStores
    /\ now = 0
    /\ ent = [lastDetectionTime |-> 0, lastHeartbeatTime |-> 0,
              millis |-> Ms(31000)]
    /\ trk = [previousOccupied |-> db.spots[SLOT_ID].occupied,
              lastCheckTime |-> 0, lastHeartbeat |-> 0, millis |-> Ms(16000)]
    /\ srv \in {[lastHB |-> 0, millis |-> m] : m \in {Ms(3000), Ms(31000)}}
    /\ json = NoResponse
    /\ parsed = NoParse
    /\ call = [fn |-> "loop", n |-> 0, device |-> "none", path |-> "boot",
               heartbeat |-> FALSE]
    /\ issued = <<>>

DeviceStep(device, o) ==
    /\ call.n < MaxLoops
    /\ db' = o.db
    /\ now' = o.now
    /\ issued' = o.issued
    /\ call' = [fn |-> "loop", n |-> call.n + 1, device |-> device,
                path |-> o.path, heartbeat |-> o.heartbeat]
    /\ UNCHANGED parsed

EntranceRuns(capture, response, took) ==
    LET o == EntranceLoop(db, ent.millis, ent, capture, response, took)
    IN  /\ DeviceStep("entrance", o)
        /\ ent' = [o.loc EXCEPT !.millis = o.now]
        /\ json' = IF capture THEN response ELSE NoResponse
        /\ UNCHANGED <<trk, srv>>

TrackerRuns(capture, response, took) ==
    LET o == TrackerLoop(db, trk.millis, trk, capture, response, took)
    IN  /\ DeviceStep("slot", o)
        /\ trk' = [o.loc EXCEPT !.millis = o.now]
        /\ json' = IF capture THEN response ELSE NoResponse
        /\ UNCHANGED <<ent, srv>>

StreamRuns(took) ==
    LET o == StreamLoop(db, srv.millis, srv, took)
    IN  /\ DeviceStep("stream", o)
        /\ srv' = [o.loc EXCEPT !.millis = o.now]
        /\ UNCHANGED <<ent, trk, json>>

NextDevices ==
    \/ \E capture \in BOOLEAN, response \in DeviceFrames :
          EntranceRuns(capture, response, Ms(1000))
    \/ \E capture \in BOOLEAN, response \in DeviceFrames, took \in Latencies :
          TrackerRuns(capture, response, took)
    \/ StreamRuns(Ms(1000))

SpecDevices == InitDevices /\ [][NextDevices]_vars

TypeWrites(ws) ==
    SelectSeq(ws, LAMBDA w : w.ns = "parking_spots" /\ w.field = "type")

\* C15: no iteration of the entrance loop, the slot-camera loop or the
\* stream-server loop issues a write to the type field of a slot record, and
\* every slot's type after the iteration is its type before it.
C15_TypeImmutable ==
    [][(call'.n = call.n + 1)
       => /\ TypeWrites(issued') = <<>>
          /\ \A i \in SlotIds : db'.spots[i].type = db.spots[i].type]_vars

\* The entrance claimed a slot and the slot camera wrote slot SLOT_ID's record:
\* both handlers that write slot records have run, and the types are the
\* provisioned ones.
C15_Witness ==
    /\ call.fn = "loop"
    /\ call.n >= 3
    /\ Len(db.logs) >= 1
    /\ call.device = "slot"
    /\ call.path = "changed"
    /\ SlotWrites(issued) # <<>>
    /\ \A i \in SlotIds : db.spots[i].type \in {"car", "motorcycle", "<absent>"}


\* C18: a slot-camera tick that takes its slot from not occupied to occupied
\* issues two slot writes, occupied = true and entry_time = the device's uptime
\* in seconds during the tick, and leaves vehicle_type and license_plate of the
\* slot as they were (as the entrance set them, if it claimed the slot).
C18_ArrivalFrame ==
    [][(/\ call'.n = call.n + 1
        /\ call'.device = "slot"
        /\ call'.path = "changed"
        /\ ~trk.previousOccupied)
       => LET slot == db.spots[SLOT_ID]
              after == db'.spots[SLOT_ID]
          IN  /\ SlotWrites(issued') =
                    << SetSlot(SLOT_ID, "occupied", TRUE),
                       SetSlot(SLOT_ID, "entry_time", after.entry_time) >>
              /\ after.occupied
              /\ after.entry_time >= Seconds(trk.millis)
              /\ after.entry_time <= Seconds(trk'.millis)
              /\ after.vehicle_type = slot.vehicle_type
              /\ after.license_plate = slot.license_plate
              /\ trk'.previousOccupied]_vars

\* The slot camera saw the vehicle arrive in a slot the entrance had claimed:
\* the record still names the vehicle, the entry time is the camera's.
C18_Witness ==
    /\ call.fn = "loop"
    /\ call.device = "slot"
    /\ call.path = "changed"
    /\ trk.previousOccupied
    /\ Len(db.logs) >= 1
    /\ db.spots[SLOT_ID].vehicle_type = "car"
    /\ Len(SlotWrites(issued)) = 2
    /\ db.spots[SLOT_ID].entry_time > Seconds(ent.millis)


\* CAMERA_ID and millis() of the device named in call.device.
CameraIdOf(device) ==
    CASE device = "entrance" -> ENTRANCE_CAMERA_ID
      [] device = "slot" -> SLOT_CAMERA_ID
      [] device = "stream" -> STREAM_CAMERA_ID

Uptime(device) ==
    CASE device = "entrance" -> ent.millis
      [] device = "slot" -> trk.millis
      [] device = "stream" -> srv.millis

CameraWrites(ws) == SelectSeq(ws, LAMBDA w : w.ns = "cameras")

\* C20: no loop iteration of a device removes a cameras/<id> record or leaves a
\* status other than "online" in one; the camera writes of an iteration are
\* sets on the record of the device's own CAMERA_ID and no other record
\* changes; an iteration that sends the heartbeat writes status "online" and
\* last_heartbeat = the device's uptime in seconds, one that does not writes
\* nothing to cameras.
C20_WriterSilent ==
    [][(call'.n = call.n + 1)
       => LET own == CameraIdOf(call'.device)
              cw == CameraWrites(issued')
          IN  /\ DOMAIN db'.cameras = DOMAIN db.cameras
              /\ \A c \in DOMAIN db'.cameras : db'.cameras[c].status = "online"
              /\ \A n \in 1..Len(cw) :
                    /\ cw[n].op = "set"
                    /\ cw[n].key = own
                    /\ cw[n].field = "status" => cw[n].val = "online"
              /\ \A c \in DOMAIN db.cameras \ {own} :
                    db'.cameras[c] = db.cameras[c]
              /\ IF call'.heartbeat
                 THEN /\ cw = << SetCamera(own, "status", "online"),
                                 SetCamera(own, "last_heartbeat",
                                           Seconds(Uptime(call'.device))) >>
                      /\ db'.cameras[own] =
                            [status |-> "online",
                             last_heartbeat |-> Seconds(Uptime(call'.device))]
                 ELSE cw = <<>>]_vars

\* The slot camera and the entrance have sent heartbeats and the stream server
\* has just sent its own.
C20_Witness ==
    /\ call.fn = "loop"
    /\ call.device = "stream"
    /\ call.heartbeat
    /\ db.cameras[SLOT_CAMERA_ID].last_heartbeat # Absent
    /\ db.cameras[STREAM_CAMERA_ID].last_heartbeat # Absent
    /\ ent.lastHeartbeatTime > 0
    /\ trk.lastHeartbeat > 0
    /\ srv.lastHB > 0


(***************************************************************************)
(* SpecFrame: the frame buffer in the entrance and slot-camera loops, one  *)
(* statement of loop() per step.  The timers are not kept: whether the     *)
(* heartbeat is due and whether the loop is still waiting (cooldown, check *)
(* interval) are inputs of the first step of an iteration.  held is the    *)
(* number of frame buffers checked out of the camera driver, got and       *)
(* released count esp_camera_fb_get successes and esp_camera_fb_return     *)
(* calls (history).                                                        *)
(***************************************************************************)
\* loop() with the frame handed back at the end of the iteration.
LoopBody_ReleaseLast ==
    << "esp_camera_fb_get", "sendToRoboflow", "isEmpty", "reconcile",
       "esp_camera_fb_return" >>

\* The statements of loop() from the capture on, in both firmwares.
LoopBody ==
    << "esp_camera_fb_get", "sendToRoboflow", "esp_camera_fb_return",
       "isEmpty", "reconcile" >>

FrameIdle(device) ==
    [fn |-> "loop", device |-> device, n |-> 0, at |-> 0, held |-> 0,
     got |-> 0, released |-> 0, classified |-> FALSE]

InitFrame ==
    /\ db \in TrackerStores \cup ProvisionedStores
    /\ now = Ms(16000)
    /\ ent = NoEnt
    /\ trk = [NoTrk EXCEPT !.previousOccupied = db.spots[SLOT_ID].occupied]
    /\ srv = NoSrv
    /\ json = NoResponse
    /\ parsed = NoParse
    /\ \E device \in {"entrance", "slot"} : call = FrameIdle(device)
    /\ issued = <<>>

\* loop() returns.
Return(c) == [c EXCEPT !.n = c.n + 1, !.at = 0, !.classified = FALSE]

\* Control passes to the next statement, or out of loop() after the last.
Advance(c) == IF c.at = Len(LoopBody) THEN Return(c) ELSE [c EXCEPT !.at = c.at + 1]

At(stmt) == call.at >= 1 /\ LoopBody[call.at] = stmt

\* The heartbeat block and the cooldown / check-interval test.
LoopTop(due, waiting) ==
    LET hb == IF due THEN SendHeartbeat(CameraIdOf(call.device), now) ELSE <<>>
    IN  /\ call.at = 0
        /\ call.n < MaxLoops
        /\ db' = ApplyAll(db, hb)
        /\ issued' = hb
        /\ call' = IF waiting THEN Return(call) ELSE [call EXCEPT !.at = 1]
        /\ UNCHANGED <<now, ent, trk, json, parsed, srv>>

\* camera_fb_t* fb = esp_camera_fb_get(); if (!fb) { delay(500); return; }
FbGet(ok) ==
    /\ At("esp_camera_fb_get")
    /\ call' = IF ok
               THEN Advance([call EXCEPT !.held = call.held + 1,
                                         !.got = call.got + 1])
               ELSE Return(call)
    /\ issued' = <<>>
    /\ UNCHANGED <<db, now, ent, trk, json, parsed, srv>>

\* String response = sendToRoboflow(fb->buf, fb->len);
SendToRoboflow(response) ==
    /\ At("sendToRoboflow")
    /\ json' = response
    /\ call' = Advance([call EXCEPT !.classified = TRUE])
    /\ issued' = <<>>
    /\ UNCHANGED <<db, now, ent, trk, parsed, srv>>

\* esp_camera_fb_return(fb);
FbReturn ==
    /\ At("esp_camera_fb_return")
    /\ call' = Advance([call EXCEPT !.held = call.held - 1,
                                    !.released = call.released + 1])
    /\ issued' = <<>>
    /\ UNCHANGED <<db, now, ent, trk, json, parsed, srv>>

\* if (response.isEmpty()) return;
IsEmpty ==
    /\ At("isEmpty")
    /\ call' = IF json.kind = "empty" THEN Return(call) ELSE Advance(call)
    /\ issued' = <<>>
    /\ UNCHANGED <<db, now, ent, trk, json, parsed, srv>>

\* The rest of loop(): the interpretation of the response and the store
\* requests that follow from it.
Reconcile ==
    LET p == ParseRoboflowResponse(json, ParseInit)
        nowOccupied == DetectVehiclePresence(json)
        ws == IF call.device = "entrance"
              THEN IF VehicleAccepted(p)
                   THEN ProcessVehicleCheckIn(db, p.vehicleType,
                                              p.licensePlate, now)
                   ELSE <<>>
              ELSE IF nowOccupied # trk.previousOccupied
                   THEN UpdateSlotOccupancy(SLOT_ID, nowOccupied, now)
                   ELSE <<>>
    IN  /\ At("reconcile")
        /\ db' = ApplyAll(db, ws)
        /\ issued' = ws
        /\ trk' = IF call.device = "slot"
                  THEN [trk EXCEPT !.previousOccupied = nowOccupied] ELSE trk
        /\ parsed' = IF call.device = "entrance" THEN p ELSE parsed
        /\ call' = Advance(call)
        /\ UNCHANGED <<now, ent, json, srv>>

NextFrame ==
    \/ \E due \in BOOLEAN, waiting \in BOOLEAN : LoopTop(due, waiting)
    \/ \E ok \in BOOLEAN : FbGet(ok)
    \/ \E response \in Frames : SendToRoboflow(response)
    \/ FbReturn
    \/ IsEmpty
    \/ Reconcile

SpecFrame == InitFrame /\ [][NextFrame]_vars

\* C21: in the entrance and slot-camera loops at most one frame buffer is
\* checked out at any time, every frame obtained is handed back exactly once,
\* by the step that follows the return of the classifier call, no statement
\* that reads or writes the store runs while a frame is checked out, and every
\* path out of loop() leaves no frame checked out.
C21_SingleOwnerFrame ==
    [][/\ call'.held \in {0, 1}
       /\ call'.got = call'.released + call'.held
       /\ (call.held = 1 /\ call.classified)
             => (call'.held = 0 /\ call'.released = call.released + 1)
       /\ (At("reconcile") \/ issued' # <<>> \/ db' # db) => call.held = 0
       /\ call'.at = 0 => call'.held = 0]_vars

\* Frames were handed back on a classifier success that wrote the store, and
\* the last iteration ended on an empty response with its frame handed back.
C21_Witness ==
    /\ call.fn = "loop"
    /\ call.at = 0
    /\ call.n >= 2
    /\ call.released >= 2
    /\ call.held = 0
    /\ json.kind = "empty"
    /\ \/ Len(db.logs) >= 1
       \/ db.spots[SLOT_ID].occupied /\ trk.previousOccupied


(***************************************************************************)
(* SpecCrash: one entrance device whose check-in can be cut short.  A step *)
(* is one write request of processVehicleCheckIn, in program order, or a   *)
(* reset of the device (power loss, watchdog) that drops the requests not  *)
(* yet issued; the store keeps what was written.                           *)
(***************************************************************************)
InitCrash ==
    /\ db \in ProvisionedStores
    /\ now = Ms(6000)
    /\ ent = NoEnt
    /\ trk = NoTrk
    /\ srv = NoSrv
    /\ json = NoResponse
    /\ parsed = NoParse
    /\ call = [fn |-> "processVehicleCheckIn", n |-> 0, pend |-> <<>>,
               resets |-> 0]
    /\ issued = <<>>

\* loop() calls processVehicleCheckIn(vehicleType, licensePlate); the scan and
\* the counter read are answered from the store as it is.
CheckInCalled(vehicleType, licensePlate) ==
    /\ call.pend = <<>>
    /\ call.n <= MaxCheckIns
    /\ call' = [call EXCEPT
                  !.n = call.n + 1,
                  !.pend = ProcessVehicleCheckIn(db, vehicleType,
                                                 licensePlate, now)]
    /\ issued' = <<>>
    /\ now' = Later(now, Ms(6000))
    /\ UNCHANGED <<db, ent, trk, json, parsed, srv>>

\* The next Firebase.set* / push* request of the check-in.
CheckInWrite ==
    /\ call.pend # <<>>
    /\ db' = Apply(db, Head(call.pend))
    /\ issued' = Append(issued, Head(call.pend))
    /\ call' = [call EXCEPT !.pend = Tail(call.pend)]
    /\ UNCHANGED <<now, ent, trk, json, parsed, srv>>

\* The device resets in the middle of the check-in.
DeviceReset ==
    /\ call.pend # <<>>
    /\ call.resets < MaxCheckIns
    /\ call' = [call EXCEPT !.pend = <<>>, !.resets = call.resets + 1]
    /\ issued' = <<>>
    /\ UNCHANGED <<db, now, ent, trk, json, parsed, srv>>

NextCrash ==
    \/ \E vt \in {"car", "motorcycle"}, lp \in Plates : CheckInCalled(vt, lp)
    \/ CheckInWrite
    \/ DeviceReset

SpecCrash == InitCrash /\ [][NextCrash]_vars

\* The claim of slot s for the vehicle of access-log entry e is in the store.
ClaimWritten(e) ==
    db.spots[e.slot] =
        [type |-> e.type, occupied |-> TRUE, vehicle_type |-> e.type,
         license_plate |-> e.plate, entry_time |-> e.timestamp]

\* The slots whose claim for a vehicle of type t is complete: entry_time is the
\* last field assignSlot writes.
ClaimedFor(t) ==
    {i \in SlotIds : /\ db.spots[i].occupied
                     /\ db.spots[i].vehicle_type = t
                     /\ db.spots[i].entry_time # 0}

\* C24: in every state of a run of check-ins that can be cut short between any
\* two writes, every access-log entry names a slot whose claim is fully written
\* and every counter has been raised at most once per fully written claim of
\* its type (counters start at 0): the claim is written before the counter and
\* the log.
C24_ClaimBeforeCounterBeforeLog ==
    /\ \A n \in 1..Len(db.logs) : ClaimWritten(db.logs[n])
    /\ \A t \in VehicleTypes :
          Counted(db.checkin[t]) <= Cardinality(ClaimedFor(t))

\* A check-in was cut after its counter increment and before its log append;
\* an earlier one ran to its end.
C24_Witness ==
    /\ call.fn = "processVehicleCheckIn"
    /\ call.resets >= 1
    /\ call.pend = <<>>
    /\ Len(db.logs) = 1
    /\ \E t \in VehicleTypes :
          /\ db.checkin[t] = Cardinality(ClaimedFor(t))
          /\ db.checkin[t] >
                Cardinality({n \in 1..Len(db.logs) : db.logs[n].type = t})


\* The store says occupied, the slot camera remembers not occupied.
Drifted == db.spots[SLOT_ID].occupied /\ ~trk.previousOccupied

\* The step is a slot-camera tick whose frame shows a vehicle.
PresenceObserved ==
    /\ call'.device = "slot"
    /\ call'.path \in {"changed", "unchanged"}
    /\ DetectVehiclePresence(json')

\* C25: once another writer has set the slot camera's slot to occupied while
\* the camera holds previousOccupied = false, every step in which the camera
\* observes no presence leaves it so: the camera issues no slot write (it
\* compares with previousOccupied, never with the store), the record stays
\* occupied and previousOccupied stays false.
C25_TrackerDrift ==
    [][(call'.n = call.n + 1 /\ Drifted /\ ~PresenceObserved)
       => /\ db'.spots[SLOT_ID].occupied
          /\ ~trk'.previousOccupied
          /\ call'.device = "slot"
                => /\ SlotWrites(issued') = <<>>
                   /\ db'.spots[SLOT_ID] = db.spots[SLOT_ID]]_vars

\* The entrance claimed the camera's slot; the camera then ticked on a frame
\* with no vehicle and left the record occupied.
C25_Witness ==
    /\ call.fn = "loop"
    /\ call.device = "slot"
    /\ call.path = "unchanged"
    /\ json.kind = "ok"
    /\ ~DetectVehiclePresence(json)
    /\ Len(db.logs) >= 1
    /\ db.logs[1].slot = SLOT_ID
    /\ db.spots[SLOT_ID].occupied
    /\ ~trk.previousOccupied


(***************************************************************************)
(* SpecPresence: detectVehiclePresence on its own.  Every response of the  *)
(* bounded family is drawn at Init, together with what the slot camera     *)
(* remembers, and the detector is applied once.                            *)
(***************************************************************************)
InitPresence ==
    /\ db = EmptyStore
    /\ now = 0
    /\ ent = NoEnt
    /\ trk \in {[NoTrk EXCEPT !.previousOccupied = b] : b \in BOOLEAN}
    /\ srv = NoSrv
    /\ json \in Responses
    /\ parsed = NoParse
    /\ call = [fn |-> "detectVehiclePresence", done |-> FALSE,
               nowOccupied |-> FALSE]
    /\ issued = <<>>

\* bool nowOccupied = detectVehiclePresence(response);
Detects ==
    /\ ~call.done
    /\ call' = [call EXCEPT !.done = TRUE,
                            !.nowOccupied = DetectVehiclePresence(json)]
    /\ UNCHANGED <<db, now, ent, trk, json, parsed, issued, srv>>

NextPresence == Detects

SpecPresence == InitPresence /\ [][NextPresence]_vars

\* Some prediction has a vehicle label and confidence at or above the slot
\* camera's floor of 0.50.
VehicleAtOrAboveFloor(j) ==
    \E i \in 1..Len(j.predictions) :
        /\ j.predictions[i].class \in {"car", "motorcycle", "truck"}
        /\ j.predictions[i].confidence >= 50

\* C26: for every well-formed prediction list detectVehiclePresence returns true
\* if and only if some prediction has label car, motorcycle or truck and
\* confidence >= 0.50, whatever previousOccupied holds.
C26_PresenceDecision ==
    (call.fn = "detectVehiclePresence" /\ call.done /\ json.kind = "ok")
    => (call.nowOccupied <=> VehicleAtOrAboveFloor(json))

\* Presence decided by a vehicle exactly at the floor that follows a plate
\* above it and a vehicle below it, with the opposite remembered.
C26_Witness ==
    /\ call.fn = "detectVehiclePresence"
    /\ call.done
    /\ call.nowOccupied
    /\ ~trk.previousOccupied
    /\ json.kind = "ok"
    /\ Len(json.predictions) = 3
    /\ json.predictions[1] = [class |-> "license_plate", confidence |-> 60]
    /\ json.predictions[2] = [class |-> "truck", confidence |-> 0]
    /\ json.predictions[3] = [class |-> "motorcycle", confidence |-> 50]


\* C28: the slot camera of slot SLOT_ID writes, within parking_spots, only the
\* fields occupied, vehicle_type, license_plate and entry_time of its own slot;
\* its other writes go to its camera record; no iteration of its loop changes
\* another slot record, a counter, the alerts or the access log.
C28_TrackerWritesOwnSlot ==
    [][(call'.n = call.n + 1 /\ call'.device = "slot")
       => /\ \A n \in 1..Len(issued') :
                \/ issued'[n].ns = "cameras"
                \/ /\ issued'[n].ns = "parking_spots"
                   /\ issued'[n].key = SLOT_ID
                   /\ issued'[n].field \in {"occupied", "vehicle_type",
                                            "license_plate", "entry_time"}
          /\ \A i \in SlotIds \ {SLOT_ID} : db'.spots[i] = db.spots[i]
          /\ db'.checkin = db.checkin
          /\ db'.alerts = db.alerts
          /\ db'.logs = db.logs]_vars

\* The camera vacated its slot while the entrance had claimed another one: the
\* other record, the counter and the log are as the entrance left them.
C28_Witness ==
    /\ call.fn = "loop"
    /\ call.device = "slot"
    /\ call.path = "changed"
    /\ Len(SlotWrites(issued)) = 4
    /\ ~db.spots[SLOT_ID].occupied
    /\ Len(db.logs) = 1
    /\ db.logs[1].slot # SLOT_ID
    /\ db.spots[db.logs[1].slot].occupied
    /\ db.checkin[db.logs[1].type] = 1


(***************************************************************************)
(* SpecOverlap: a vacate of slot SLOT_ID by its camera and a check-in at   *)
(* the entrance, one store request per step.  The slot holds a vehicle,    *)
(* the camera has just seen it leave and is about to write; the entrance   *)
(* is about to scan the slot for a vehicle of the slot's type.             *)
(***************************************************************************)
InitOverlap ==
    /\ db \in {d \in TrackerStores : d.spots[SLOT_ID].occupied}
    /\ now = Ms(12000)
    /\ ent = NoEnt
    /\ trk = [NoTrk EXCEPT !.previousOccupied = TRUE]
    /\ srv = NoSrv
    /\ json = NoResponse
    /\ parsed = NoParse
    /\ \E lp \in Plates :
          call = [fn |-> "overlap", licensePlate |-> lp, scanned |-> FALSE,
                  vacate |-> UpdateSlotOccupancy(SLOT_ID, FALSE, now),
                  claim |-> <<>>, overlapped |-> FALSE]
    /\ issued = <<>>

\* updateSlotOccupancy(false): its next Firebase.set* request.
VacateWrite ==
    /\ call.vacate # <<>>
    /\ db' = Apply(db, Head(call.vacate))
    /\ issued' = Append(issued, Head(call.vacate))
    /\ call' = [call EXCEPT !.vacate = Tail(call.vacate)]
    /\ trk' = IF Len(call.vacate) = 1
              THEN [trk EXCEPT !.previousOccupied = FALSE] ELSE trk
    /\ UNCHANGED <<now, ent, json, parsed, srv>>

\* findAvailableSlot reads the slot; when it is free, assignSlot is called.
\* overlapped (history): the vacate had requests left at that moment.
ScanReads ==
    LET vt == db.spots[SLOT_ID].type
        free == SlotAvailable(db, SLOT_ID, vt)
    IN  /\ ~call.scanned
        /\ call' = [call EXCEPT
                      !.scanned = TRUE,
                      !.claim = IF free
                                THEN AssignSlot(SLOT_ID, vt, call.licensePlate, now)
                                ELSE <<>>,
                      !.overlapped = free /\ call.vacate # <<>>]
        /\ UNCHANGED <<db, now, ent, trk, json, parsed, issued, srv>>

\* assignSlot: its next Firebase.set* request.
ClaimWrite ==
    /\ call.claim # <<>>
    /\ db' = Apply(db, Head(call.claim))
    /\ issued' = Append(issued, Head(call.claim))
    /\ call' = [call EXCEPT !.claim = Tail(call.claim)]
    /\ UNCHANGED <<now, ent, trk, json, parsed, srv>>

NextOverlap ==
    \/ VacateWrite
    \/ ScanReads
    \/ ClaimWrite

SpecOverlap == InitOverlap /\ [][NextOverlap]_vars

\* The two records the serial orders leave: vacate then claim, claim then vacate.
FullyClaimed(r, lp, t) ==
    r = [type |-> r.type, occupied |-> TRUE, vehicle_type |-> r.type,
         license_plate |-> lp, entry_time |-> Seconds(t)]

FullyVacant(r) == r = VacantSlot(r.type)

\* C29: when a claim (assignSlot) and a vacate (updateSlotOccupancy(false)) of
\* the same slot have run concurrently and both have issued all their requests,
\* the slot record is the one a serial order leaves: fully claimed, or fully
\* vacant and reset.
C29_ClaimVacateSerializable ==
    (/\ call.fn = "overlap"
     /\ call.overlapped
     /\ call.vacate = <<>>
     /\ call.claim = <<>>)
    => \/ FullyClaimed(db.spots[SLOT_ID], call.licensePlate, now)
       \/ FullyVacant(db.spots[SLOT_ID])


(***************************************************************************)
(* SpecWrap: the entrance and the slot-camera loops of devices that have   *)
(* been up for 2^32 ms, so that millis() wraps to 0 during the run.  Next  *)
(* to each timer the model keeps the time that has really passed since the *)
(* firmware set it (sinceDetection, sinceHeartbeat, sinceCheck): history   *)
(* fields, not variables of the firmware.                                  *)
(***************************************************************************)
\* The time from counter value a forward to counter value b, less than one
\* whole turn of the counter later.
Forward(a, b) == IF b >= a THEN b - a ELSE b + (MILLIS_WRAP - a)

\* The counter value d ticks before t, for d <= t.
Before(t, d) == t - d

WrapStarts == {MILLIS_WRAP - Ms(2000), MILLIS_WRAP - Ms(300)}

\* How long before the start each timer was set.
EntranceAges ==
    { [detection |-> Ms(1000), heartbeat |-> Ms(10000)],
      [detection |-> Ms(20000), heartbeat |-> Ms(29000)] }

TrackerAges ==
    { [check |-> Ms(1000), heartbeat |-> Ms(10000)],
      [check |-> Ms(14900), heartbeat |-> Ms(29000)] }

InitWrap ==
    /\ db \in {d \in ProvisionedStores :
                 \A i \in SlotIds : d.spots[i].type \in {"car", "<absent>"}}
    /\ now = 0
    /\ \E m \in WrapStarts, age \in EntranceAges :
          ent = [lastDetectionTime |-> Before(m, age.detection),
                 lastHeartbeatTime |-> Before(m, age.heartbeat),
                 millis |-> m, sinceDetection |-> age.detection,
                 sinceHeartbeat |-> age.heartbeat]
    /\ \E m \in WrapStarts, age \in TrackerAges :
          trk = [previousOccupied |-> db.spots[SLOT_ID].occupied,
                 lastCheckTime |-> Before(m, age.check),
                 lastHeartbeat |-> Before(m, age.heartbeat),
                 millis |-> m, sinceCheck |-> age.check,
                 sinceHeartbeat |-> age.heartbeat]
    /\ json = NoResponse
    /\ parsed = NoParse
    /\ call = [fn |-> "loop", n |-> 0, device |-> "none", path |-> "boot",
               heartbeat |-> FALSE, before |-> NoEnt]
    /\ issued = <<>>
    /\ srv = NoSrv

\* The time that has really passed since a timer was set, at the end of an
\* iteration that started at counter value m with the timer since ticks old
\* and ended at o.now: the timer holds the counter value it was set to when
\* the iteration set it.
SinceAfter(m, since, o, set, timer) ==
    IF set THEN Forward(timer, o.now) ELSE since + Forward(m, o.now)

WrapStep(device, o, x, response) ==
    /\ call.n < MaxLoops
    /\ db' = o.db
    /\ now' = o.now
    /\ issued' = o.issued
    /\ json' = response
    /\ call' = [fn |-> "loop", n |-> call.n + 1, device |-> device,
                path |-> o.path, heartbeat |-> o.heartbeat, before |-> x]
    /\ UNCHANGED <<parsed, srv>>

EntranceWraps(capture, response, took) ==
    LET o == EntranceLoop(db, ent.millis, ent, capture, response, took)
    IN  /\ WrapStep("entrance", o, ent, IF capture THEN response ELSE NoResponse)
        /\ ent' = [o.loc EXCEPT
                     !.millis = o.now,
                     !.sinceHeartbeat =
                         SinceAfter(ent.millis, ent.sinceHeartbeat, o,
                                    o.heartbeat, o.loc.lastHeartbeatTime),
                     !.sinceDetection =
                         SinceAfter(ent.millis, ent.sinceDetection, o,
                                    o.path = "checkin", o.loc.lastDetectionTime)]
        /\ UNCHANGED trk

TrackerWraps(capture, response, took) ==
    LET o == TrackerLoop(db, trk.millis, trk, capture, response, took)
    IN  /\ WrapStep("slot", o, trk, IF capture THEN response ELSE NoResponse)
        /\ trk' = [o.loc EXCEPT
                     !.millis = o.now,
                     !.sinceHeartbeat =
                         SinceAfter(trk.millis, trk.sinceHeartbeat, o,
                                    o.heartbeat, o.loc.lastHeartbeat),
                     !.sinceCheck =
                         SinceAfter(trk.millis, trk.sinceCheck, o,
                                    o.path # "wait", o.loc.lastCheckTime)]
        /\ UNCHANGED ent

NextWrap ==
    \/ \E capture \in BOOLEAN, response \in DeviceFrames :
          EntranceWraps(capture, response, Ms(1000))
    \/ \E capture \in BOOLEAN, response \in DeviceFrames, took \in Latencies :
          TrackerWraps(capture, response, took)

SpecWrap == InitWrap /\ [][NextWrap]_vars

\* The counter value at which the iteration that has just run made its second
\* timer test: after the heartbeat's requests when it sent one.
SecondTestAt(m, sent, heartbeatTimer) == IF sent THEN heartbeatTimer ELSE m

\* C32: the heartbeat, cooldown and check-interval tests decide as the time
\* that has really passed since the timer was set decides, also when millis()
\* has wrapped to 0 between the setting of the timer and the test: the
\* heartbeat is sent exactly when more than its interval has passed, and the
\* iteration returns early exactly when less than the cooldown or the check
\* interval has passed.
C32_TimersSurviveWrap ==
    [][/\ call'.device = "entrance"
          => /\ call'.heartbeat <=> ent.sinceHeartbeat > HEARTBEAT_INTERVAL
             /\ call'.path = "cooldown"
                <=> ent.sinceDetection
                      + Forward(ent.millis,
                                SecondTestAt(ent.millis, call'.heartbeat,
                                             ent'.lastHeartbeatTime))
                    < DETECTION_COOLDOWN_MS
       /\ call'.device = "slot"
          => /\ call'.heartbeat <=> trk.sinceHeartbeat > SLOT_HEARTBEAT_MS
             /\ call'.path = "wait"
                <=> trk.sinceCheck
                      + Forward(trk.millis,
                                SecondTestAt(trk.millis, call'.heartbeat,
                                             trk'.lastHeartbeat))
                    < CHECK_INTERVAL_MS]_vars

\* An entrance iteration that started after millis() had wrapped, with both
\* timers set before the wrap: it sent the heartbeat and went on to a check-in.
C32_Witness ==
    /\ call.device = "entrance"
    /\ call.before.millis < call.before.lastHeartbeatTime
    /\ call.before.millis < call.before.lastDetectionTime
    /\ call.heartbeat
    /\ call.path = "checkin"
    /\ ent.sinceDetection < DETECTION_COOLDOWN_MS

(***************************************************************************)
(* SpecAvailable: computeAvailableCounts of the dashboard on its own.  A   *)
(* spots map is given as Object.values(spots) lists it.  A field of a slot *)
(* record holds any value the store can deliver, written here as its       *)
(* JavaScript literal; "undefined" is a field the record does not have.    *)
(***************************************************************************)
DashboardTypes == {"motorcycle", "car", "truck"}

JsTypeValues == DashboardTypes \cup {"bus", "''", "undefined"}
JsOccupiedValues == {"true", "false", "undefined", "0"}

\* ToBoolean of JavaScript on the values above.
JsFalsy(v) == v \in {"false", "undefined", "null", "0", "''"}

SpotRecords == [type : JsTypeValues, occupied : JsOccupiedValues]

\* const counts = { motorcycle: 0, car: 0, truck: 0 };
CountsInit == [t \in DashboardTypes |-> 0]

\* counts[slot.type] = (counts[slot.type] || 0) + 1;
CountUp(counts, t) ==
    IF t \in DOMAIN counts
    THEN [counts EXCEPT ![t] = (IF @ = 0 THEN 0 ELSE @) + 1]
    ELSE counts @@ (t :> 0 + 1)

\* A count that takes a slot as free only when occupied is the boolean false.
CountSlot_StrictFalse(counts, slot) ==
    IF slot.occupied = "false" /\ ~JsFalsy(slot.type)
    THEN CountUp(counts, slot.type)
    ELSE counts

\* The body of the forEach callback.
CountSlot(counts, slot) ==
    IF JsFalsy(slot.occupied) /\ ~JsFalsy(slot.type)
    THEN CountUp(counts, slot.type)
    ELSE counts

RECURSIVE ForEachSlot(_, _, _)
ForEachSlot(values, i, counts) ==
    IF i > Len(values) THEN counts
    ELSE ForEachSlot(values, i + 1, CountSlot(counts, values[i]))

\* export function computeAvailableCounts(spots)
ComputeAvailableCounts(values) == ForEachSlot(values, 1, CountsInit)

InitAvailable ==
    /\ db = EmptyStore
    /\ now = 0
    /\ ent = NoEnt
    /\ trk = NoTrk
    /\ json = NoResponse
    /\ parsed = NoParse
    /\ \E values \in SeqsUpTo(SpotRecords, MaxSpots) :
          call = [fn |-> "computeAvailableCounts", spots |-> values,
                  returned |-> FALSE, counts |-> CountsInit]
    /\ issued = <<>>
    /\ srv = NoSrv

\* DashboardScreen: useMemo(() => computeAvailableCounts(spots), [spots])
Available ==
    /\ ~call.returned
    /\ call' = [call EXCEPT !.returned = TRUE,
                            !.counts = ComputeAvailableCounts(call.spots)]
    /\ UNCHANGED <<db, now, ent, trk, json, parsed, issued, srv>>

NextAvailable == Available

SpecAvailable == InitAvailable /\ [][NextAvailable]_vars

\* The slot records of the map that have type t and a falsy occupied field.
FreeOfType(values, t) ==
    {n \in 1..Len(values) : values[n].type = t /\ JsFalsy(values[n].occupied)}

\* C33: for every spots map, computeAvailableCounts returns for each of
\* motorcycle, car and truck the number of slot records of that type whose
\* occupied field is falsy; occupied slots and slots without a type add to no
\* count.
C33_AvailableCounts ==
    call.returned
    => /\ \A t \in DashboardTypes :
             call.counts[t] = Cardinality(FreeOfType(call.spots, t))
       /\ \A t \in DOMAIN call.counts :
             /\ ~JsFalsy(t)
             /\ call.counts[t] = Cardinality(FreeOfType(call.spots, t))

\* The count of a map with a free car slot that has no occupied field and an
\* occupied car slot, or a free slot that has no type: one car at most.
C33_Witness ==
    /\ call.returned
    /\ Len(call.spots) = 2
    /\ call.spots[1] = [type |-> "car", occupied |-> "undefined"]
    /\ \/ call.spots[2] = [type |-> "car", occupied |-> "true"]
       \/ call.spots[2] = [type |-> "undefined", occupied |-> "false"]
    /\ call.counts = [motorcycle |-> 0, car |-> 1, truck |-> 0]

(***************************************************************************)
(* SpecStream: stream_handler of the stream server serving one client, one *)
(* statement per step.  call holds the handler's locals (fb, _jpg_buf,     *)
(* res), the statement it is at, and history: held is the number of frame  *)
(* buffers checked out of the camera driver, got and released count the    *)
(* successful esp_camera_fb_get calls and the esp_camera_fb_return calls,  *)
(* heap the buffers frame2jpg allocated that are not yet freed, failed the *)
(* calls that have failed, paths the ways taken through the loop body.     *)
(* What the driver and the HTTP server return is an input of the step that *)
(* calls them.                                                             *)
(***************************************************************************)
PixFormats == {"PIXFORMAT_JPEG", "PIXFORMAT_RGB565"}

\* The handler is called: its locals as declared.
HandlerCalled ==
    [fn |-> "stream_handler", at |-> "httpd_resp_set_type", n |-> 0,
     fb |-> "NULL", format |-> "none", jpg_buf |-> "NULL", res |-> "ESP_OK",
     chunk |-> 0, held |-> 0, got |-> 0, released |-> 0, heap |-> 0,
     failed |-> {}, jpeg_converted |-> FALSE, paths |-> {}]

InitStream ==
    /\ db = EmptyStore
    /\ now = 0
    /\ ent = NoEnt
    /\ trk = NoTrk
    /\ json = NoResponse
    /\ parsed = NoParse
    /\ call = HandlerCalled
    /\ issued = <<>>
    /\ srv = NoSrv

\* return res;
HandlerReturns(c) == [c EXCEPT !.at = "returned"]

\* esp_camera_fb_return(fb); fb = NULL; without the second statement.
ReturnFrame_KeepsPointer(c) ==
    [c EXCEPT !.held = c.held - 1, !.released = c.released + 1]

\* esp_camera_fb_return(fb); fb = NULL;
ReturnFrame(c) ==
    [c EXCEPT !.held = c.held - 1, !.released = c.released + 1, !.fb = "NULL"]

StreamStep(c) ==
    /\ call' = c
    /\ UNCHANGED <<db, now, ent, trk, json, parsed, issued, srv>>

\* res = httpd_resp_set_type(req, _STREAM_CONTENT_TYPE);
\* if (res != ESP_OK) return res;
SetType(ok) ==
    /\ call.at = "httpd_resp_set_type"
    /\ StreamStep(IF ok
                  THEN [call EXCEPT !.at = "esp_camera_fb_get"]
                  ELSE HandlerReturns([call EXCEPT
                                          !.res = "ESP_FAIL",
                                          !.failed = @ \cup {"set_type"}]))

\* fb = esp_camera_fb_get(); if (!fb) { res = ESP_FAIL; break; }
StreamFbGet(ok, format) ==
    /\ call.at = "esp_camera_fb_get"
    /\ call.n < MaxFrames
    /\ StreamStep(IF ok
                  THEN [call EXCEPT !.fb = "frame", !.format = format,
                                    !.n = call.n + 1,
                                    !.held = call.held + 1,
                                    !.got = call.got + 1,
                                    !.at = IF format = "PIXFORMAT_JPEG"
                                           THEN "use_frame" ELSE "frame2jpg"]
                  ELSE HandlerReturns([call EXCEPT
                                          !.res = "ESP_FAIL",
                                          !.n = call.n + 1,
                                          !.paths = @ \cup {"capture_failed"},
                                          !.failed = @ \cup {"capture"}]))

\* bool jpeg_converted = frame2jpg(fb, 80, &_jpg_buf, &_jpg_buf_len);
\* _jpg_buf is assigned only when the conversion succeeds.
Frame2Jpg(converted) ==
    /\ call.at = "frame2jpg"
    /\ StreamStep(IF converted
                  THEN [call EXCEPT !.jpg_buf = "heap", !.heap = call.heap + 1,
                                    !.jpeg_converted = TRUE,
                                    !.paths = @ \cup {"converted"},
                                    !.at = "return_converted"]
                  ELSE [call EXCEPT !.jpeg_converted = FALSE,
                                    !.paths = @ \cup {"conversion_failed"},
                                    !.failed = @ \cup {"conversion"},
                                    !.at = "return_converted"])

\* esp_camera_fb_return(fb); fb = NULL;
\* if (!jpeg_converted) { res = ESP_FAIL; break; }
ReturnConverted ==
    /\ call.at = "return_converted"
    /\ StreamStep(IF call.jpeg_converted
                  THEN [ReturnFrame(call) EXCEPT !.at = "send_chunk", !.chunk = 1]
                  ELSE HandlerReturns([ReturnFrame(call) EXCEPT
                                          !.res = "ESP_FAIL"]))

\* _jpg_buf_len = fb->len; _jpg_buf = fb->buf;
UseFrame ==
    /\ call.at = "use_frame"
    /\ StreamStep([call EXCEPT !.jpg_buf = "fb->buf",
                               !.paths = @ \cup {"jpeg"},
                               !.at = "send_chunk", !.chunk = 1])

\* if (res == ESP_OK) res = httpd_resp_send_chunk(...): the boundary, the part
\* header and the image, in this order.
SendChunk(ok) ==
    /\ call.at = "send_chunk"
    /\ LET sent == call.res = "ESP_OK"
           c == IF sent /\ ~ok
                THEN [call EXCEPT !.res = "ESP_FAIL",
                                  !.paths = @ \cup {"send_failed"},
                                  !.failed = @ \cup {"send"}]
                ELSE call
       IN  StreamStep(IF call.chunk = 3
                      THEN [c EXCEPT !.at = "cleanup", !.chunk = 0]
                      ELSE [c EXCEPT !.chunk = call.chunk + 1])

\* if (fb) { esp_camera_fb_return(fb); fb = NULL; }
\* else if (_jpg_buf) { free(_jpg_buf); _jpg_buf = NULL; }
\* After the first branch _jpg_buf still points into the returned frame.
Cleanup ==
    /\ call.at = "cleanup"
    /\ StreamStep(IF call.fb # "NULL"
                  THEN [ReturnFrame(call) EXCEPT
                           !.jpg_buf = IF @ = "fb->buf" THEN "stale" ELSE @,
                           !.at = "check_res"]
                  ELSE IF call.jpg_buf # "NULL"
                  THEN [call EXCEPT !.jpg_buf = "NULL", !.heap = call.heap - 1,
                                    !.at = "check_res"]
                  ELSE [call EXCEPT !.at = "check_res"])

\* if (res != ESP_OK) break;  and the end of the loop body.
CheckRes ==
    /\ call.at = "check_res"
    /\ StreamStep(IF call.res # "ESP_OK"
                  THEN HandlerReturns(call)
                  ELSE [call EXCEPT !.at = "esp_camera_fb_get"])

NextStream ==
    \/ \E ok \in BOOLEAN : SetType(ok)
    \/ \E ok \in BOOLEAN, format \in PixFormats : StreamFbGet(ok, format)
    \/ \E converted \in BOOLEAN : Frame2Jpg(converted)
    \/ ReturnConverted
    \/ UseFrame
    \/ \E ok \in BOOLEAN : SendChunk(ok)
    \/ Cleanup
    \/ CheckRes

SpecStream == InitStream /\ [][NextStream]_vars

=============================================================================
